---- MODULE Spec2Model ----
(***************************************************************************)
(* State-machine model of the market-surveillance pipeline of auto-trade.  *)
(*                                                                         *)
(* Part I   weighted book imbalance (monitoring/book_imbalance.py)         *)
(* Part II  Binance alert gate and push notifier                           *)
(*          (scripts/run_binance_monitor.py)                               *)
(* Part III multi-market monitor and its price monitors                    *)
(*          (scripts/run_multi_market_monitor.py, price_monitor.py)        *)
(* Part IV  reconnect loops of the stream shards                           *)
(* Part V   connection-rate gate (connectors/binance/websocket.py)         *)
(* Part VI  token bucket (connectors/retry.py)                             *)
(* Part VII stop-hunt detection (monitoring/whale_tracker.py)              *)
(* Part VIII dynamic slippage threshold (monitoring/smart_filter.py)       *)
(* Part IX  price monitor across resets (monitoring/price_monitor.py)      *)
(* Part X   spot-futures basis (monitoring/basis_tracker.py)               *)
(* Part XI  alert aggregation (monitoring/alert_aggregator.py)             *)
(* Part XII shutdown of the unified monitor                                *)
(*          (scripts/run_unified_monitor.py)                               *)
(* Part XIII trades against the cached book                                *)
(*          (monitoring/binance_processor.py)                              *)
(* Part XIV hot configuration reload (monitoring/hot_config.py)            *)
(* Part XV  sharding of the symbols over connections                       *)
(*          (scripts/run_binance_monitor.py)                               *)
(* Part XVI symbol conversion (connectors/binance/auth.py)                 *)
(* Part XVII execution engine and risk manager                             *)
(*          (engine/execution_engine.py, risk/manager.py)                  *)
(* Part XVIII the lock of the hot configuration (monitoring/hot_config.py) *)
(*                                                                         *)
(* Wall-clock time is the integer variable now, in seconds.  Scores, the   *)
(* EMA and deltas of Part I are fixed-point numbers in units of 0.05       *)
(* (ScoreScale steps per 1.0).                                             *)
(***************************************************************************)
EXTENDS Integers, Sequences, FiniteSets, TLC

VARIABLES
    now,                \* datetime.now(), seconds
    advances,           \* number of clock advances taken so far
    \* ---- Part I: BookImbalanceAnalyzer
    wbi_states,         \* self._states : symbol -> SymbolState
    wbi_last_cleanup,   \* self._last_cleanup
    wbi_last,           \* the last get_signal call: symbol, state before, signal returned
    wbi_seen,           \* history: ticks since the symbol was first observed (saturating)
    wbi_streak,         \* history: run of valid ticks with one current direction
    wbi_sig_time,       \* history: time of the symbol's last significant signal
    wbi_sig_gap,        \* history: smallest gap seen between two significant signals
    \* ---- Part II: BinanceMultiConnectionMonitor and its TelegramNotifier
    bm,                 \* the monitor: alert_cooldown, price_cache, stats
    notifier,           \* the notifier: _last_send_times
    bm_task,            \* per connection task: where handle_connection stands
    gate_hist,          \* history: alerts raised, pushes made, messages dropped
    \* ---- Part III: MultiMarketMonitor
    script,             \* which of the two monitor scripts this process runs
    mm,                 \* the monitor: _prev_orderbooks, _warmed_up, _alerted, ...
    mm_task,            \* where _run_ws stands
    mm_hist,            \* history: large-order alerts, updates handled, reconnects
    \* ---- Part IV: the reconnect loop of a stream shard
    shard,              \* the loop's locals: reconnect_count, reconnect_delay, retry_count
    shard_hist,         \* history: consecutive failed rounds, sleeps before re-dials
    \* ---- Part V: the connection-rate gate of BinanceWebSocketManager
    conn_gate,          \* _connection_timestamps, the callers of the gate, and the
                        \* history of the times at which a caller went on to dial
    \* ---- Part VI: TokenBucketLimiter
    bucket,             \* tokens, _last_update, _lock, the callers of acquire, and
                        \* the history of calls and grants
    \* ---- Part VII: WhaleTracker, stop hunt
    whale,              \* the symbol's price_history and the last detect_stop_hunt
    \* ---- Part VIII: SmartAlertFilter, dynamic slippage threshold
    smart_filter,       \* _stats of each symbol and the last get_dynamic_threshold
    \* ---- Part IX: a PriceMonitor across resets
    price_mon,          \* the monitor and the history of its alerts per direction
    \* ---- Part X: BasisTracker
    basis,              \* _states, _pending_alerts, and the last update_price
    \* ---- Part XI: AlertAggregator
    aggregator,         \* _buckets, and the last add_alert or flush_all
    \* ---- Part XII: UnifiedMonitor, shutdown
    unified,            \* _running, _tasks, the signal count, where main stands
    \* ---- Part XIII: BinanceProcessor, trades against the cached book
    processor,          \* order book cache, filter statistics, cool-downs, last trade
    \* ---- Part XIV: HotConfig
    hot_config,         \* the files, _config, _last_modified, _callbacks, the last
                        \* _load and the last get
    \* ---- Part XV: the shards of BinanceMultiConnectionMonitor.run
    pool,               \* symbols, cap and budget drawn, and the shards built
    \* ---- Part XVI: SymbolConverter
    converter,          \* the symbol drawn and what the conversions returned
    \* ---- Part XVII: ExecutionEngine with its RiskManager and exchange
    engine,             \* tasks, queue, tables, risk state, exchange orders, history
    \* ---- Part XVIII: the lock of HotConfig
    cfg_lock            \* who holds _lock, and where each frame of the thread stands

wbiVars == <<wbi_states, wbi_last_cleanup, wbi_last, wbi_seen, wbi_streak,
             wbi_sig_time, wbi_sig_gap>>
clockVars == <<now, advances>>
gateVars == <<bm, notifier, bm_task, gate_hist>>
mmVars == <<mm, mm_task, mm_hist>>
shardVars == <<shard, shard_hist>>
\* the parts that the book-imbalance, gate and multi-market actions never touch
earlyVars == <<shardVars, conn_gate, bucket, whale, smart_filter>>
\* the parts from Part IX onwards
\* the parts from Part XVI onwards
tailVars == <<converter, engine, cfg_lock>>
lateVars == <<price_mon, basis, aggregator, unified, processor, hot_config, pool,
              tailVars>>
extVars == <<earlyVars, lateVars>>
\* the parts that the actions of Part IV onwards never touch
coreVars == <<clockVars, wbiVars, gateVars, script>>
vars == <<now, advances, wbi_states, wbi_last_cleanup, wbi_last, wbi_seen,
          wbi_streak, wbi_sig_time, wbi_sig_gap, bm, notifier, bm_task, gate_hist,
          script, mm, mm_task, mm_hist, shard, shard_hist, conn_gate,
          bucket, whale, smart_filter, price_mon, basis, aggregator,
          unified, processor, hot_config, pool, converter, engine, cfg_lock>>

(***************************************************************************)
(* Bounds of the model.                                                    *)
(***************************************************************************)
\* clock advances per behaviour
MaxAdvances == 1
\* symbols that only ever arrive (one empty-book tick each), to fill the table
NumFillers == 11
\* stream events (trades and depth updates) per behaviour of the Binance monitor
MaxEvents == 3
\* stream events per behaviour of a burst
MaxBurstEvents == 4
\* reconnects per behaviour of the multi-market monitor
MaxMmReconnects == 1
\* clock advances per behaviour of the Binance monitor
MaxGateAdvances == 2
\* calls of the connection-rate gate and clock advances per behaviour
MaxGateCalls == 4
MaxRateAdvances == 5
\* calls of TokenBucketLimiter.acquire and clock advances per behaviour
MaxAcquires == 4
MaxBucketAdvances == 4
\* trades, depth updates and clock advances per behaviour of the processor
MaxProcEvents == 4
MaxProcAdvances == 2
\* alerts added and clock advances per behaviour of the aggregator
MaxAggAlerts == 3
MaxAggAdvances == 3
\* price updates and clock advances per behaviour of the basis tracker
MaxBasisUpdates == 4
MaxBasisAdvances == 6
\* tasks, exchange orders, PnL updates, resets, cancel calls, cleanup passes and
\* clock advances per behaviour of the execution engine
MaxEngineTasks == 2
MaxExchangeOrders == 2
MaxPnlUpdates == 2
MaxRiskResets == 1
MaxCancels == 1
MaxCleanups == 1
MaxEngineAdvances == 2
\* get calls, reload signals, file writes and callbacks per behaviour of the
\* configuration lock
MaxLockCalls == 2
MaxLockSignals == 2
MaxLockWrites == 2
MaxLockCallbacks == 2
\* symbols per market and proxies of a run of the Binance monitor
MaxMarketSymbols == 9
MaxProxies == 2
\* file writes, calls (get, reload signal) and clock advances per behaviour of
\* the hot configuration
MaxConfigWrites == 3
MaxHotCalls == 3
MaxHotAdvances == 2
\* prices seen, resets and clock advances per behaviour of a price monitor
MaxPriceUpdates == 5
MaxPriceResets == 2
MaxPriceAdvances == 12
\* slippage samples and clock advances per behaviour of the smart filter
MaxSlippageRecords == 4
MaxFilterAdvances == 3
\* price records after the quiet hour and clock advances per behaviour of
\* the whale tracker
MaxRecentRecords == 3
MaxWhaleAdvances == 6
\* order book updates and clock advances per behaviour around a reconnect
MaxQuietEvents == 3
MaxQuietAdvances == 2

Abs(x) == IF x < 0 THEN -x ELSE x
Min(a, b) == IF a < b THEN a ELSE b
Max(a, b) == IF a > b THEN a ELSE b
\* n / d rounded to the nearest integer (d > 0)
RoundDiv(n, d) == (2 * n + d) \div (2 * d)

\* absent Optional values
NoTime == -1
NoEma == 999
NoDir == "None"

(***************************************************************************)
(* Part I.  BookImbalanceAnalyzer                                          *)
(***************************************************************************)
BUY_PRESSURE == "buy_pressure"
SELL_PRESSURE == "sell_pressure"
BALANCED == "balanced"

INACTIVE == "inactive"
PENDING == "pending"
ACTIVE == "active"
WARMUP == "warmup"
CROSS_MARKET == "cross"

\* fixed-point steps per 1.0
ScoreScale == 20
\* constructor defaults, scores in units of 1/ScoreScale
delta_trigger == 14
delta_reset == 4
level_trigger == 17
direction_threshold == 2
warmup_ticks == 10
confirm_ticks == 3
cooldown_seconds == 60
\* ema_alpha = ema_alpha_num / 10
ema_alpha_num == 1

\* class constants; MAX_SYMBOLS is 3000 in the source and scaled 1:300 here
MAX_SYMBOLS == 10
SYMBOL_TTL_SECONDS == 3600
CLEANUP_COOLDOWN == 60

\* the symbol whose book takes every value, and the filler symbols
Focus == 0
Fillers == 1..NumFillers
Symbols == {Focus} \cup Fillers

\* |score| < 1: 2*(sigmoid(2*log10(ratio)) - 0.5) with ratio clamped to [1e-3, 1e3];
\* the scores the books of the model take: 0, and on each side one value between
\* the thresholds 0.1, 0.595 and 0.85 that the state machine compares a score with
Scores == {-19, -8, -3, 0, 3, 8, 19}

\* a tick's book, reduced to what get_signal reads of it: which sides are
\* empty, the best prices, and the score that _log_sigmoid gives the book
OkBooks == {[has_bids |-> TRUE, has_asks |-> TRUE, best_bid |-> 1, best_ask |-> 2,
             score |-> sc] : sc \in Scores}
EmptyBooks == {[has_bids |-> FALSE, has_asks |-> TRUE, best_bid |-> 0, best_ask |-> 2,
                score |-> 0],
               [has_bids |-> TRUE, has_asks |-> FALSE, best_bid |-> 1, best_ask |-> 0,
                score |-> 0]}
CrossedBooks == {[has_bids |-> TRUE, has_asks |-> TRUE, best_bid |-> 2, best_ask |-> 2,
                  score |-> 0],
                 [has_bids |-> TRUE, has_asks |-> TRUE, best_bid |-> 2, best_ask |-> 1,
                  score |-> 0]}
Books == OkBooks \cup EmptyBooks \cup CrossedBooks

NoTrigger == [kind |-> "", cooldown |-> FALSE]

SymbolState == [ema_score |-> NoEma, alert_state |-> WARMUP, alert_direction |-> NoDir,
                tick_count |-> 0, warmup_just_ended |-> FALSE, last_update |-> NoTime,
                pending_direction |-> NoDir, pending_ticks |-> 0,
                pending_trigger |-> NoTrigger, pre_flip_direction |-> NoDir,
                last_alert_time |-> NoTime]

_get_direction_from_value(value) ==
    IF value > direction_threshold THEN BUY_PRESSURE
    ELSE IF value < -direction_threshold THEN SELL_PRESSURE
    ELSE BALANCED

_is_in_cooldown(state, t) ==
    IF state.last_alert_time = NoTime THEN FALSE
    ELSE (t - state.last_alert_time) < cooldown_seconds

\* lines 218-238: the reason names the trigger type; the strength word the source
\* appends to it is display text and is left out
_format_trigger_reason(trigger_type, value) ==
    [kind |-> trigger_type, cooldown |-> FALSE]

SignOf(x) == IF x > 0 THEN BUY_PRESSURE ELSE SELL_PRESSURE

ImbalanceSignal(symbol, direction, score, delta, state, is_significant, reason) ==
    [symbol |-> symbol, direction |-> direction, score |-> score, delta |-> delta,
     state |-> state, is_significant |-> is_significant, trigger_reason |-> reason]

_empty_signal(symbol, state, reason) ==
    ImbalanceSignal(symbol, BALANCED, 0, 0, state.alert_state, FALSE,
                    [kind |-> reason, cooldown |-> FALSE])


\* line 284: the tick is inside the warm-up period
InWarmup_confirm(state) == state.tick_count <= confirm_ticks
InWarmup(state) == state.tick_count <= warmup_ticks

\* lines 335-344 and 358-361: a strong signal and its direction
IsStrong(score, delta) == Abs(delta) >= delta_trigger \/ Abs(score) >= level_trigger
StrongDirection(score, delta) ==
    IF Abs(delta) >= delta_trigger THEN SignOf(delta) ELSE SignOf(score)

\* the result of one branch of the state machine: the state written back, the
\* locals direction / is_significant / trigger_reason / new_state
Outcome(state, direction, is_significant, trigger_reason, new_state) ==
    [state |-> state, direction |-> direction, is_significant |-> is_significant,
     trigger_reason |-> trigger_reason, new_state |-> new_state]

\* lines 329-351
InactiveStep(state, score, delta) ==
    IF IsStrong(score, delta)
    THEN LET direction == StrongDirection(score, delta)
             trigger_type == IF Abs(delta) >= delta_trigger THEN "delta" ELSE "level"
             trigger_value == IF Abs(delta) >= delta_trigger THEN delta ELSE score
         IN Outcome([state EXCEPT !.pending_direction = direction,
                                  !.pending_ticks = 1,
                                  !.pending_trigger =
                                      _format_trigger_reason(trigger_type, trigger_value)],
                    direction, FALSE, NoTrigger, PENDING)
    ELSE Outcome(state, BALANCED, FALSE, NoTrigger, state.alert_state)

\* lines 357-363: the current direction as the PENDING branch computes it
PendingCurrentDir(score, delta) ==
    IF IsStrong(score, delta) THEN StrongDirection(score, delta)
    ELSE _get_direction_from_value(score)

\* lines 353-407
PendingStep(state, score, delta, t) ==
    LET pending_dir == state.pending_direction
        current_dir == PendingCurrentDir(score, delta)
    IN IF current_dir = pending_dir
       THEN LET counted == [state EXCEPT !.pending_ticks = @ + 1]
            IN IF counted.pending_ticks >= confirm_ticks
               THEN IF ~_is_in_cooldown(counted, t)
                    THEN Outcome([counted EXCEPT !.alert_direction = pending_dir,
                                                 !.last_alert_time = t,
                                                 !.pre_flip_direction = NoDir],
                                 pending_dir, TRUE, counted.pending_trigger, ACTIVE)
                    ELSE Outcome([counted EXCEPT !.alert_direction = pending_dir,
                                                 !.pre_flip_direction = NoDir],
                                 pending_dir, FALSE,
                                 [counted.pending_trigger EXCEPT !.cooldown = TRUE],
                                 ACTIVE)
               ELSE Outcome(counted, BALANCED, FALSE, NoTrigger, state.alert_state)
       ELSE IF IsStrong(score, delta)
            THEN Outcome([state EXCEPT
                              !.pending_direction = current_dir,
                              !.pending_ticks = 1,
                              !.pending_trigger = _format_trigger_reason(
                                  IF Abs(delta) >= delta_trigger THEN "delta" ELSE "level",
                                  IF Abs(delta) >= delta_trigger THEN delta ELSE score)],
                         BALANCED, FALSE, NoTrigger, PENDING)
            ELSE IF state.pre_flip_direction # NoDir
                 THEN Outcome([state EXCEPT !.alert_direction = state.pre_flip_direction,
                                            !.pre_flip_direction = NoDir],
                              state.pre_flip_direction, FALSE, NoTrigger, ACTIVE)
                 ELSE Outcome([state EXCEPT !.pending_direction = NoDir,
                                            !.pending_ticks = 0,
                                            !.pending_trigger = NoTrigger],
                              BALANCED, FALSE, NoTrigger, INACTIVE)

\* lines 413-422
EdgeFlip(old_direction, delta) ==
    \/ (old_direction = BUY_PRESSURE /\ delta < -delta_trigger)
    \/ (old_direction = SELL_PRESSURE /\ delta > delta_trigger)
LevelFlip(old_direction, score) ==
    \/ (old_direction = BUY_PRESSURE /\ score < -level_trigger)
    \/ (old_direction = SELL_PRESSURE /\ score > level_trigger)

\* line 434: abs_delta < delta_reset and abs_score < level_trigger * 0.7
DecayReset_delta(score, delta) == Abs(delta) < delta_reset /\ Abs(score) < delta_reset
DecayReset(score, delta) == Abs(delta) < delta_reset /\ 10 * Abs(score) < 7 * level_trigger

\* lines 409-442
ActiveStep(state, score, delta) ==
    LET old_direction == state.alert_direction
        edge_flip == EdgeFlip(old_direction, delta)
        level_flip == LevelFlip(old_direction, score)
    IN IF edge_flip \/ level_flip
       THEN LET new_direction == IF delta > 0 \/ score > 0 THEN BUY_PRESSURE
                                 ELSE SELL_PRESSURE
            IN Outcome([state EXCEPT !.pre_flip_direction = old_direction,
                                     !.pending_direction = new_direction,
                                     !.pending_ticks = 1,
                                     !.pending_trigger = _format_trigger_reason(
                                         "flip", IF edge_flip THEN delta ELSE score)],
                       old_direction, FALSE, NoTrigger, PENDING)
       ELSE IF DecayReset(score, delta)
            THEN Outcome([state EXCEPT !.alert_direction = NoDir,
                                       !.pending_direction = NoDir,
                                       !.pending_ticks = 0,
                                       !.pre_flip_direction = NoDir],
                         BALANCED, FALSE, NoTrigger, INACTIVE)
            ELSE Outcome(state,
                         IF state.alert_direction # NoDir THEN state.alert_direction
                         ELSE BALANCED,
                         FALSE, NoTrigger, state.alert_state)

\* line 315, in fixed point
EmaBlend(score, ema) ==
    RoundDiv(ema_alpha_num * score + (10 - ema_alpha_num) * ema, 10)

\* lines 247-455 after _get_state: the state written back and the signal returned
\* for a tick of `symbol` with `book` at time t, from the symbol's state `state0`
GetSignalResult(symbol, state0, book, t) ==
    LET state1 == [state0 EXCEPT
                       \* the count is only ever compared with warmup_ticks (line 284):
                       \* the model stops counting one past it
                       !.tick_count = Min(@ + 1, warmup_ticks + 1),
                       !.last_update = t]
    IN IF ~book.has_bids \/ ~book.has_asks
       THEN [state |-> state1, signal |-> _empty_signal(symbol, state1, "no_data")]
       ELSE IF book.best_bid >= book.best_ask
       THEN LET crossed == [state1 EXCEPT !.alert_state = CROSS_MARKET,
                                          !.pending_direction = NoDir,
                                          !.pending_ticks = 0]
            IN [state |-> crossed, signal |-> _empty_signal(symbol, crossed, "cross_market")]
       ELSE IF InWarmup(state1)
       THEN [state |-> state1,
             signal |-> ImbalanceSignal(symbol, BALANCED, book.score, 0, WARMUP, FALSE,
                                        [kind |-> "warmup",
                                         cooldown |-> FALSE])]
       ELSE
        LET score == book.score
            \* lines 292-302
            warm == state1.alert_state = WARMUP
            state2 == IF warm
                      THEN [state1 EXCEPT !.alert_state = INACTIVE, !.ema_score = score,
                                          !.warmup_just_ended = TRUE]
                      ELSE state1
            cross_just_recovered == state2.alert_state = CROSS_MARKET
            state3 == IF cross_just_recovered
                      THEN [state2 EXCEPT !.alert_state = INACTIVE, !.ema_score = score]
                      ELSE state2
            \* lines 305-309; `if state.ema_score` is false for None and for 0.0
            delta == IF state3.warmup_just_ended \/ cross_just_recovered THEN 0
                     ELSE IF state3.ema_score # NoEma /\ state3.ema_score # 0
                          THEN score - state3.ema_score
                          ELSE 0
            \* lines 307, 312-315
            state4 == [state3 EXCEPT
                           !.warmup_just_ended = FALSE,
                           !.ema_score = IF @ = NoEma THEN score ELSE EmaBlend(score, @)]
            out == CASE state4.alert_state = INACTIVE -> InactiveStep(state4, score, delta)
                     [] state4.alert_state = PENDING -> PendingStep(state4, score, delta, t)
                     [] state4.alert_state = ACTIVE -> ActiveStep(state4, score, delta)
                     [] OTHER -> Outcome(state4, BALANCED, FALSE, NoTrigger,
                                         state4.alert_state)
        IN [state |-> [out.state EXCEPT !.alert_state = out.new_state],
            signal |-> ImbalanceSignal(symbol, out.direction, score, delta, out.new_state,
                                       out.is_significant, out.trigger_reason)]


\* lines 152-170: the tables _cleanup_zombie_states may leave behind, one for each
\* outcome of random.sample
_cleanup_zombie_states(states, exclude_symbol, t) ==
    LET cutoff == t - SYMBOL_TTL_SECONDS
        expired == {s \in DOMAIN states :
                        /\ s # exclude_symbol
                        /\ states[s].last_update # NoTime
                        /\ states[s].last_update < cutoff}
        len == Cardinality(DOMAIN states)
        candidates == (DOMAIN states \ {exclude_symbol}) \ expired
        delete_count == len \div 10
        samples == IF /\ 10 * (len - Cardinality(expired)) > 9 * MAX_SYMBOLS
                      /\ candidates # {}
                      /\ delete_count > 0
                   THEN {c \in SUBSET candidates :
                            Cardinality(c) = Min(delete_count, Cardinality(candidates))}
                   ELSE {{}}
    IN {[s \in (DOMAIN states \ expired) \ sample |-> states[s]] : sample \in samples}

\* line 143-144: the sweep is due
CleanupDue(states, last_cleanup, t) ==
    /\ Cardinality(DOMAIN states) > MAX_SYMBOLS
    /\ (t - last_cleanup) > CLEANUP_COOLDOWN

\* lines 141-150: the tables _get_state may leave behind (the symbol is in each)
_get_state(states, last_cleanup, symbol, t) ==
    LET swept == IF CleanupDue(states, last_cleanup, t)
                 THEN _cleanup_zombie_states(states, symbol, t)
                 ELSE {states}
    IN {[s \in DOMAIN sw \cup {symbol} |->
            IF s \in DOMAIN sw THEN sw[s] ELSE SymbolState] : sw \in swept}

\* the current direction of a tick that reaches the state machine
TickDirection(signal) == PendingCurrentDir(signal.score, signal.delta)

\* history: the run of state-machine ticks with one current direction; a crossed
\* book or a fresh state ends the run, an empty book is skipped
NextStreak(old, fresh, signal) ==
    LET base == IF fresh THEN [dir |-> NoDir, n |-> 0] ELSE old
    IN CASE signal.trigger_reason.kind = "no_data" -> base
         [] signal.trigger_reason.kind \in {"cross_market", "warmup"} ->
                [dir |-> NoDir, n |-> 0]
         [] OTHER ->
                IF TickDirection(signal) = base.dir
                THEN [dir |-> base.dir, n |-> Min(base.n + 1, confirm_ticks)]
                ELSE [dir |-> TickDirection(signal), n |-> 1]

\* get_signal(symbol, bids, asks), lines 240-455
get_signal(symbol, book) ==
    \E table \in _get_state(wbi_states, wbi_last_cleanup, symbol, now) :
        LET fresh == symbol \notin DOMAIN wbi_states \/ table[symbol] = SymbolState
            res == GetSignalResult(symbol, table[symbol], book, now)
            sig == res.signal
        IN /\ wbi_states' = [table EXCEPT ![symbol] = res.state]
           /\ wbi_last_cleanup' = IF CleanupDue(wbi_states, wbi_last_cleanup, now)
                                  THEN now ELSE wbi_last_cleanup
           /\ wbi_last' = [symbol |-> symbol,
                           before |-> [alert_state |-> table[symbol].alert_state,
                                       alert_direction |-> table[symbol].alert_direction,
                                       cooldown |-> _is_in_cooldown(table[symbol], now)],
                           signal |-> sig]
           /\ wbi_seen' = [wbi_seen EXCEPT ![symbol] = Min(@ + 1, warmup_ticks + 1)]
           /\ wbi_streak' = [wbi_streak EXCEPT ![symbol] = NextStreak(@, fresh, sig)]
           /\ wbi_sig_time' = IF sig.is_significant
                              THEN [wbi_sig_time EXCEPT ![symbol] = now]
                              ELSE wbi_sig_time
           /\ wbi_sig_gap' =
                 IF sig.is_significant /\ wbi_sig_time[symbol] # NoTime
                 THEN [wbi_sig_gap EXCEPT ![symbol] =
                          IF @ = NoTime THEN now - wbi_sig_time[symbol]
                          ELSE Min(@, now - wbi_sig_time[symbol])]
                 ELSE wbi_sig_gap

\* a depth tick of the focus symbol, with any book
TickFocus ==
    /\ \E book \in Books : get_signal(Focus, book)
    /\ UNCHANGED <<clockVars, gateVars, script, mmVars, extVars>>

\* a symbol not seen before (or swept since) sends a first tick, its book one-sided
TickFiller ==
    /\ \E f \in Fillers :
          /\ f \notin DOMAIN wbi_states
          /\ \A g \in Fillers : g < f => g \in DOMAIN wbi_states
          /\ \E book \in EmptyBooks : book.has_asks /\ get_signal(f, book)
    /\ UNCHANGED <<clockVars, gateVars, script, mmVars, extVars>>

\* time passes between two events
AdvanceClock(steps) ==
    /\ advances < MaxAdvances
    /\ \E d \in steps : now' = now + d
    /\ advances' = advances + 1

\* a cool-down passes
WbiClock ==
    /\ AdvanceClock({cooldown_seconds})
    /\ UNCHANGED <<wbiVars, gateVars, script, mmVars, extVars>>

\* the books of the focus symbol while the table is being filled: crossed, or
\* as bid-heavy as a book gets
SweepBooks == {b \in CrossedBooks : b.best_bid > b.best_ask}
                  \cup {b \in OkBooks : b.score = ScoreScale - 1}

\* a depth tick of the focus symbol with a crossed or lopsided book
SweepTickFocus ==
    /\ \E book \in SweepBooks : get_signal(Focus, book)
    /\ UNCHANGED <<clockVars, gateVars, script, mmVars, extVars>>

\* the sweep's rate limit passes, or the rate limit and the symbol TTL
SweepClock ==
    /\ AdvanceClock({CLEANUP_COOLDOWN + 1, SYMBOL_TTL_SECONDS + CLEANUP_COOLDOWN + 1})
    /\ UNCHANGED <<wbiVars, gateVars, script, mmVars, extVars>>

(***************************************************************************)
(* Part II: scripts/run_binance_monitor.py, the slippage alerts of the     *)
(* multi-connection monitor, their cool-down gate and the levelled         *)
(* Telegram notifier.  Slippage is in units of 0.1 %, order values in      *)
(* thousands of dollars, prices in tenths of a dollar.                     *)
(***************************************************************************)
\* the two monitor scripts
BINANCE_MONITOR == "run_binance_monitor"
MULTI_MARKET_MONITOR == "run_multi_market_monitor"

LOW == "low"
MEDIUM == "medium"
HIGH == "high"
NoLevel == "None"

slippage_low == 5
slippage_medium == 20
slippage_high == 100
min_order_spot == 50
min_order_futures == 20
PRICE_COOLDOWN == 120
\* the notifier's budget per window (30 in the source), and the window
rate_limit == 2
RateWindow == 60
SecondsPerDay == 86400
PriceScale == 10

\* settings.TELEGRAM_BOT_TOKEN (with its chat id) and the urgent bot's
TELEGRAM_BOT_TOKEN == "normal_bot"
TELEGRAM_URGENT_BOT_TOKEN == "urgent_bot"

\* the connection tasks run() creates: one spot batch and one futures batch
Conns == {1, 2}
ConnMarket(c) == IF c = 1 THEN "spot" ELSE "futures"
ConnSymbol(c) == "btcusdt"

\* what the streams deliver
Prices == {1000, 1005}
Values == {20, 50}
Slippages == {0, slippage_low, slippage_medium, slippage_high}
Levels == [price : Prices, value : Values, slippage : Slippages]
\* a depth message carries at most one level a side
DepthLevels == {l \in Levels : l.price = 1000 /\ l.slippage # slippage_low}
DepthSides == {<<>>} \cup {<<l>> : l \in DepthLevels}
\* bids may also carry two large levels whose prices share a whole-dollar bucket
BidSides == DepthSides \cup {<<[price |-> 1000, value |-> 50, slippage |-> slippage_high],
                                [price |-> 1005, value |-> 50, slippage |-> slippage_high]>>}

TelegramNotifier(token, urgent_token) ==
    [token |-> token,
     urgent_token |-> IF urgent_token = "" THEN token ELSE urgent_token,
     _last_send_times |-> <<>>]

get_alert_level(slippage) ==
    IF slippage >= slippage_high THEN HIGH
    ELSE IF slippage >= slippage_medium THEN MEDIUM
    ELSE IF slippage >= slippage_low THEN LOW
    ELSE NoLevel

get_min_order(market) == IF market = "spot" THEN min_order_spot ELSE min_order_futures

\* f"{market}:{symbol}:{kind}:{int(price)}"
AlertKey(market, symbol, kind, price) ==
    [market |-> market, symbol |-> symbol, kind |-> kind, bucket |-> price \div PriceScale]

\* the gate with the notifier's window for its cool-down
is_in_cooldown_window(alert_cooldown, key, t) ==
    /\ key \in DOMAIN alert_cooldown
    /\ t - alert_cooldown[key] < RateWindow

is_in_cooldown(alert_cooldown, key, t) ==
    /\ key \in DOMAIN alert_cooldown
    /\ t - alert_cooldown[key] < PRICE_COOLDOWN

set_cooldown(alert_cooldown, key, t) ==
    [k \in DOMAIN alert_cooldown \cup {key} |-> IF k = key THEN t ELSE alert_cooldown[k]]

\* timedelta.seconds
Seconds(d) == d % SecondsPerDay

RECURSIVE PopExpired(_, _)
PopExpired(times, t) ==
    IF times # <<>> /\ Seconds(t - Head(times)) > RateWindow
    THEN PopExpired(Tail(times), t)
    ELSE times

\* deque(maxlen).append
DequeAppend(times, x, maxlen) ==
    LET all == Append(times, x)
    IN IF Len(all) > maxlen THEN Tail(all) ELSE all

SendToken(n, level) == IF level = HIGH THEN n.urgent_token ELSE n.token

\* TelegramNotifier.send up to its first suspension: the bot is chosen, the
\* window purged, and the message is refused or its POST begins
send_begin(n, level, t) ==
    LET token == SendToken(n, level)
        times == PopExpired(n._last_send_times, t)
    IN IF token = ""
       THEN [notifier |-> n, outcome |-> "no_token", token |-> token]
       ELSE IF Len(times) >= rate_limit
       THEN [notifier |-> [n EXCEPT !._last_send_times = times],
             outcome |-> "rate_limited", token |-> token]
       ELSE [notifier |-> [n EXCEPT !._last_send_times = times],
             outcome |-> "post", token |-> token]

\* TelegramNotifier.send once the POST is over; t0 is the time send began
send_end(n, t0, status_ok) ==
    IF status_ok
    THEN [n EXCEPT !._last_send_times = DequeAppend(@, t0, rate_limit)]
    ELSE n

Receiving == [pc |-> "recv"]
Posting(key, level, token, t0, rest) ==
    [pc |-> "post", key |-> key, level |-> level, token |-> token, t0 |-> t0, rest |-> rest]

StatsKey(level) ==
    IF level = HIGH THEN "alerts_high"
    ELSE IF level = MEDIUM THEN "alerts_medium" ELSE "alerts_low"

\* pushes delivered through a bot within the notifier's window before t
RecentPushes(pushes, token, t) ==
    Cardinality({i \in DOMAIN pushes : pushes[i].token = token /\ t - pushes[i].t <= RateWindow})

\* history: an alert passed the gate for the key at time t
NoteAlert(hist, key, level, t) ==
    LET old == IF key \in DOMAIN hist.alerts THEN hist.alerts[key] ELSE [ts |-> NoTime, gap |-> NoTime]
        gap == IF old.ts = NoTime THEN NoTime
               ELSE IF old.gap = NoTime THEN t - old.ts ELSE Min(old.gap, t - old.ts)
    IN [hist EXCEPT !.alerts = [k \in DOMAIN hist.alerts \cup {key} |->
                                   IF k = key THEN [ts |-> t, gap |-> gap] ELSE hist.alerts[k]]]

\* history: how a send call went on; "post" is a POST begun
NoteSend(hist, level, s, t) ==
    IF s.outcome = "post"
    THEN [hist EXCEPT !.posts[level] = @ + 1, !.post_tokens = @ \cup {<<level, s.token>>}]
    ELSE IF s.outcome = "rate_limited"
    THEN [hist EXCEPT !.rate_drops[level] = @ + 1,
                      !.last_drop = [level |-> level, t |-> t,
                                     same_bot |-> RecentPushes(hist.pushes, s.token, t)]]
    ELSE hist

\* The alert loop of process_trade and process_depth over the entries of one
\* event, from entry to the first POST it has to wait for (or to the end)
RECURSIVE RunEntries(_, _, _, _)
RunEntries(g, c, entries, t) ==
    IF entries = <<>> THEN [g |-> g, task |-> Receiving]
    ELSE LET e == Head(entries)
             level == get_alert_level(e.slippage)
             key == AlertKey(ConnMarket(c), ConnSymbol(c), e.kind, e.price)
         IN IF \/ e.value < get_min_order(ConnMarket(c))
               \/ level = NoLevel
               \/ is_in_cooldown(g.bm.alert_cooldown, key, t)
            THEN RunEntries(g, c, Tail(entries), t)
            ELSE LET s == send_begin(g.notifier, level, t)
                     g1 == [bm |-> [g.bm EXCEPT !.stats[StatsKey(level)] = @ + 1],
                            notifier |-> s.notifier,
                            hist |-> NoteSend(NoteAlert(g.hist, key, level, t), level, s, t)]
                 IN IF s.outcome = "post"
                    THEN [g |-> g1, task |-> Posting(key, level, s.token, t, Tail(entries))]
                    ELSE RunEntries([g1 EXCEPT !.bm.alert_cooldown = set_cooldown(@, key, t)],
                                    c, Tail(entries), t)

Gate == [bm |-> bm, notifier |-> notifier, hist |-> gate_hist]
Events == bm.stats["trades"] + bm.stats["depth_updates"]
CacheKey(c) == <<ConnMarket(c), ConnSymbol(c)>>
Entry(kind, l) == [kind |-> kind, price |-> l.price, value |-> l.value, slippage |-> l.slippage]

SetGate(r, c) ==
    /\ bm' = r.g.bm
    /\ notifier' = r.g.notifier
    /\ gate_hist' = r.g.hist
    /\ bm_task' = [bm_task EXCEPT ![c] = r.task]

\* handle_connection reads a trade message and awaits process_trade
process_trade(c, l) ==
    /\ script = BINANCE_MONITOR
    /\ bm_task[c].pc = "recv"
    /\ LET g0 == [Gate EXCEPT !.bm.stats["trades"] = @ + 1,
                              !.bm.price_cache = @ \cup {CacheKey(c)}]
       IN SetGate(RunEntries(g0, c, <<Entry("trade", l)>>, now), c)

\* handle_connection reads a depth message and awaits process_depth
process_depth(c, bids, asks) ==
    /\ script = BINANCE_MONITOR
    /\ bm_task[c].pc = "recv"
    /\ LET g0 == [Gate EXCEPT !.bm.stats["depth_updates"] = @ + 1]
           entries == [i \in DOMAIN bids |-> Entry("bid", bids[i])]
                          \o [i \in DOMAIN asks |-> Entry("ask", asks[i])]
       IN IF CacheKey(c) \notin bm.price_cache
          THEN SetGate([g |-> g0, task |-> Receiving], c)
          ELSE SetGate(RunEntries(g0, c, entries, now), c)

\* the POST a connection task waits for is over: send returns, the key's
\* cool-down starts and the loop goes on with the event's remaining entries
post_returns(c, status_ok) ==
    /\ bm_task[c].pc = "post"
    /\ LET task == bm_task[c]
           g0 == [bm |-> [bm EXCEPT !.alert_cooldown = set_cooldown(@, task.key, now)],
                  notifier |-> send_end(notifier, task.t0, status_ok),
                  hist |-> IF status_ok
                           THEN [gate_hist EXCEPT !.pushes =
                                    Append(@, [t |-> task.t0, token |-> task.token])]
                           ELSE gate_hist]
       IN SetGate(RunEntries(g0, c, task.rest, now), c)

Receive(c) ==
    \/ \E l \in Levels : process_trade(c, l)
    \/ \E bids \in BidSides, asks \in DepthSides : process_depth(c, bids, asks)

TradeEvent ==
    /\ Events < MaxEvents
    /\ \E c \in Conns, l \in Levels : process_trade(c, l)
    /\ UNCHANGED <<clockVars, wbiVars, script, mmVars, extVars>>
DepthEvent ==
    /\ Events < MaxEvents
    /\ \E c \in Conns, bids \in BidSides, asks \in DepthSides : process_depth(c, bids, asks)
    /\ UNCHANGED <<clockVars, wbiVars, script, mmVars, extVars>>

\* a burst: large orders only, all of them alerts, and no time passing
BurstLevels == {l \in DepthLevels : l.value = 50 /\ l.slippage # 0}
BurstSides == {<<>>} \cup {<<l>> : l \in BurstLevels}
BurstTrade ==
    /\ Events < MaxBurstEvents
    /\ \E c \in Conns, l \in BurstLevels : process_trade(c, l)
    /\ UNCHANGED <<clockVars, wbiVars, script, mmVars, extVars>>
BurstDepth ==
    /\ Events < MaxBurstEvents
    /\ \E c \in Conns, bids \in BurstSides, asks \in BurstSides : process_depth(c, bids, asks)
    /\ UNCHANGED <<clockVars, wbiVars, script, mmVars, extVars>>
PostOver ==
    /\ \E c \in Conns, status_ok \in BOOLEAN : post_returns(c, status_ok)
    /\ UNCHANGED <<clockVars, wbiVars, script, mmVars, extVars>>

\* a notifier window passes; two of them are a cool-down
GateClock ==
    /\ advances < MaxGateAdvances
    /\ now' = now + RateWindow
    /\ advances' = advances + 1
    /\ UNCHANGED <<wbiVars, gateVars, script, mmVars, extVars>>

\* the monitor after construction; stats['connections'], which only run and
\* connect_batch write, is left out
InitGate ==
    /\ bm = [alert_cooldown |-> <<>>,
             price_cache |-> {},
             stats |-> [k \in {"trades", "depth_updates", "alerts_low",
                               "alerts_medium", "alerts_high"} |-> 0]]
    /\ notifier = TelegramNotifier(TELEGRAM_BOT_TOKEN, TELEGRAM_URGENT_BOT_TOKEN)
    /\ bm_task = [c \in Conns |-> Receiving]
    /\ gate_hist = [alerts |-> <<>>,
                    posts |-> [l \in {LOW, MEDIUM, HIGH} |-> 0],
                    post_tokens |-> {},
                    rate_drops |-> [l \in {LOW, MEDIUM, HIGH} |-> 0],
                    last_drop |-> [level |-> NoLevel, t |-> NoTime, same_bot |-> 0],
                    pushes |-> <<>>]

(***************************************************************************)
(* Part III: scripts/run_multi_market_monitor.py, the large orders of the  *)
(* multi-market monitor.  Order values are in units of $100,000 and the    *)
(* price of a level is 3 (or 4) of them per unit of size.  The PriceMonitor *)
(* of the market (monitoring/price_monitor.py) is part of the monitor's    *)
(* state; it is fed twice the mid price, best bid plus best ask.           *)
(***************************************************************************)
min_value_major == 10
cooldown_sec == 60
_quiet_period_sec == 5
MmMarket == 0
MmPrices == {3}
MmSizes == {0, 1, 3, 7, 11}
\* what an update says about a side: a size for some of its price levels
MmSideUpdates == UNION {[ps -> MmSizes] : ps \in SUBSET MmPrices}

get_min_value_for_market(market_id) == min_value_major

MmKey(market_id, side, price) == [market |-> market_id, kind |-> side, price |-> price]

mm_is_in_cooldown(alerted, key, t) ==
    /\ key \in DOMAIN alerted
    /\ t - alerted[key] < cooldown_sec

\* the accumulated side after an update; size 0 removes the level
ApplyUpdate(full, update) ==
    LET keep == {p \in DOMAIN full \cup DOMAIN update :
                    p \in DOMAIN update => update[p] > 0}
    IN [p \in keep |-> IF p \in DOMAIN update THEN update[p] ELSE full[p]]

\* the price levels of a side whose size grew by a large order out of cool-down
LargePrices(market_id, side, update, prev, alerted, t) ==
    {p \in DOMAIN update :
        /\ update[p] > 0
        /\ p \in DOMAIN prev
        /\ update[p] - prev[p] > 0
        /\ p * (update[p] - prev[p]) >= get_min_value_for_market(market_id)
        /\ ~mm_is_in_cooldown(alerted, MmKey(market_id, side, p), t)}

RECURSIVE OrdersOf(_, _)
OrdersOf(side, prices) ==
    IF prices = {} THEN <<>>
    ELSE LET p == CHOOSE q \in prices : \A r \in prices : q <= r
         IN <<[side |-> side, price |-> p]>> \o OrdersOf(side, prices \ {p})

RECURSIVE NoteMmAlerts(_, _, _)
NoteMmAlerts(alerts, keys, t) ==
    IF keys = {} THEN alerts
    ELSE LET key == CHOOSE k \in keys : TRUE
             old == IF key \in DOMAIN alerts THEN alerts[key] ELSE [ts |-> NoTime, gap |-> NoTime]
             gap == IF old.ts = NoTime THEN NoTime
                    ELSE IF old.gap = NoTime THEN t - old.ts ELSE Min(old.gap, t - old.ts)
             noted == [k \in DOMAIN alerts \cup {key} |->
                          IF k = key THEN [ts |-> t, gap |-> gap] ELSE alerts[k]]
         IN NoteMmAlerts(noted, keys \ {key}, t)

MmReceiving == [pc |-> "recv"]

\* PriceMonitor thresholds, in tenths of a percent, as main() passes them
pump_threshold_pct == 5
dump_threshold_pct == -5
\* PriceMonitor defaults
time_window_sec == 60
price_cooldown_sec == 300

PriceMonitor == [_price_history |-> <<>>, _last_pump_alert |-> NoTime,
                 _last_dump_alert |-> NoTime]

\* price_monitor.py lines 144-156
_can_alert(pm, alert_type, t) ==
    LET last == IF alert_type = "pump" THEN pm._last_pump_alert ELSE pm._last_dump_alert
    IN last = NoTime \/ ~(t - last < price_cooldown_sec)

RECURSIVE DropOlder(_, _)
DropOlder(history, cutoff) ==
    IF history # <<>> /\ Head(history).t < cutoff THEN DropOlder(Tail(history), cutoff)
    ELSE history

SeqMin(S) == CHOOSE x \in S : \A y \in S : x <= y
SeqMax(S) == CHOOSE x \in S : \A y \in S : x >= y

\* PriceMonitor.update, lines 83-142: the monitor afterwards and the alert type
\* returned ("" for None); the deque's maxlen of 1000 is never reached here
PriceMonitorUpdate(pm, price, t) ==
    LET appended == Append(pm._price_history, [t |-> t, price |-> price])
        history == DropOlder(appended, t - 2 * time_window_sec)
        window == {i \in 1..Len(history) : history[i].t >= t - time_window_sec}
        window_prices == {history[i].price : i \in window}
        pm1 == [pm EXCEPT !._price_history = history]
    IN IF Cardinality(window) < 2 THEN [pm |-> pm1, alert |-> ""]
       ELSE LET min_price == SeqMin(window_prices)
                max_price == SeqMax(window_prices)
                pump == /\ min_price > 0
                        /\ 1000 * (price - min_price) >= pump_threshold_pct * min_price
                        /\ _can_alert(pm1, "pump", t)
                dump == /\ max_price > 0
                        /\ 1000 * (price - max_price) <= dump_threshold_pct * max_price
                        /\ _can_alert(pm1, "dump", t)
            IN IF pump THEN [pm |-> [pm1 EXCEPT !._last_pump_alert = t], alert |-> "pump"]
               ELSE IF dump
               THEN [pm |-> [pm1 EXCEPT !._last_dump_alert = t], alert |-> "dump"]
               ELSE [pm |-> pm1, alert |-> ""]

\* an alert is raised at t: it falls inside the quiet period or not
InQuiet(m, t) == m._quiet_until # NoTime /\ t < m._quiet_until

\* the end of _process_orderbook (lines 396-401): the accumulated book is stored,
\* the market warm
MmFinish(m, full_bids, full_asks) ==
    [m EXCEPT !._prev_orderbooks = [bids |-> full_bids, asks |-> full_asks],
              !._warmed_up = TRUE]

\* lines 383-401, after the order alerts: the price monitor sees the mid price
\* of the accumulated book; its alert is sent (awaited) before the handler ends
PriceStep(m, h, full_bids, full_asks, t) ==
    IF DOMAIN full_bids # {} /\ DOMAIN full_asks # {}
    THEN LET best_bid == SeqMax(DOMAIN full_bids)
             best_ask == SeqMin(DOMAIN full_asks)
             r == PriceMonitorUpdate(m._price_monitor, best_bid + best_ask, t)
             m1 == [m EXCEPT !._price_monitor = r.pm]
         IN IF r.alert # ""
            THEN [mm |-> [m1 EXCEPT !._total_price_alerts = @ + 1],
                  task |-> [pc |-> "send", orders |-> <<[side |-> r.alert, price |-> 0]>>,
                            t0 |-> t, full_bids |-> full_bids, full_asks |-> full_asks],
                  hist |-> [h EXCEPT !.quiet_alerts =
                                        IF InQuiet(m, t) THEN Min(@ + 1, 2) ELSE @]]
            ELSE [mm |-> MmFinish(m1, full_bids, full_asks), task |-> MmReceiving,
                  hist |-> h]
    ELSE [mm |-> MmFinish(m, full_bids, full_asks), task |-> MmReceiving, hist |-> h]

\* the price levels an update adds to a side as a wall: not in the book before,
\* worth at least the market's minimum, the key out of cool-down
FreshWalls(market_id, side, update, prev, alerted, t) ==
    {MmKey(market_id, side, p) : p \in
        {q \in DOMAIN update :
            /\ q \notin DOMAIN prev
            /\ q * update[q] >= get_min_value_for_market(market_id)
            /\ ~mm_is_in_cooldown(alerted, MmKey(market_id, side, q), t)}}

\* _run_ws reads an order book update and awaits _process_orderbook
_process_orderbook(update_bids, update_asks) ==
    /\ script = MULTI_MARKET_MONITOR
    /\ mm_task.pc = "recv"
    /\ LET prev == mm._prev_orderbooks
           full_bids == ApplyUpdate(prev.bids, update_bids)
           full_asks == ApplyUpdate(prev.asks, update_asks)
           bid_prices == IF mm._warmed_up
                         THEN LargePrices(MmMarket, "bid", update_bids, prev.bids, mm._alerted, now)
                         ELSE {}
           ask_prices == IF mm._warmed_up
                         THEN LargePrices(MmMarket, "ask", update_asks, prev.asks, mm._alerted, now)
                         ELSE {}
           keys == {MmKey(MmMarket, "bid", p) : p \in bid_prices}
                       \cup {MmKey(MmMarket, "ask", p) : p \in ask_prices}
           alerted == [k \in DOMAIN mm._alerted \cup keys |->
                          IF k \in keys THEN now ELSE mm._alerted[k]]
           new_large_orders == OrdersOf("bid", bid_prices) \o OrdersOf("ask", ask_prices)
           m1 == [mm EXCEPT !._alerted = alerted]
           h1 == [mm_hist EXCEPT
                     !.alerts = NoteMmAlerts(@, keys, now),
                     !.updates = @ + 1,
                     !.quiet_alerts = IF keys # {} /\ InQuiet(mm, now)
                                      THEN Min(@ + 1, 2) ELSE @,
                     !.last_update =
                         [quiet |-> InQuiet(mm, now),
                          reconnected |-> mm._quiet_until # NoTime,
                          warmed_up |-> mm._warmed_up,
                          fresh_walls |->
                              FreshWalls(MmMarket, "bid", update_bids, prev.bids,
                                         mm._alerted, now)
                              \cup FreshWalls(MmMarket, "ask", update_asks, prev.asks,
                                              mm._alerted, now),
                          alerted |-> keys]]
       IN IF new_large_orders = <<>>
          THEN LET r == PriceStep(m1, h1, full_bids, full_asks, now)
               IN mm' = r.mm /\ mm_task' = r.task /\ mm_hist' = r.hist
          ELSE /\ mm' = [m1 EXCEPT !._total_order_alerts = @ + 1]
               /\ mm_task' = [pc |-> "send", orders |-> new_large_orders, t0 |-> now,
                              full_bids |-> full_bids, full_asks |-> full_asks]
               /\ mm_hist' = h1

\* the notifier's send of the first waiting alert is over; the next order alert
\* is sent, or the price monitor is fed after the last of them, or the handler
\* ends after the price alert
_send_order_alert_returns(ok) ==
    /\ script = MULTI_MARKET_MONITOR
    /\ mm_task.pc = "send"
    /\ LET m1 == IF ok THEN [mm EXCEPT !._last_send_time = mm_task.t0] ELSE mm
           rest == Tail(mm_task.orders)
       IN IF rest # <<>>
          THEN /\ mm' = [m1 EXCEPT !._total_order_alerts = @ + 1]
               /\ mm_task' = [mm_task EXCEPT !.orders = rest, !.t0 = now]
               /\ mm_hist' = mm_hist
          ELSE IF Head(mm_task.orders).side \in {"bid", "ask"}
          THEN LET r == PriceStep(m1, mm_hist, mm_task.full_bids, mm_task.full_asks, now)
               IN mm' = r.mm /\ mm_task' = r.task /\ mm_hist' = r.hist
          ELSE /\ mm' = MmFinish(m1, mm_task.full_bids, mm_task.full_asks)
               /\ mm_task' = MmReceiving
               /\ mm_hist' = mm_hist

\* the multi-market monitor on a new connection (lines 153-159): the books and
\* the warm-up flags are cleared, the quiet period is set and the price monitor
\* reset (price_monitor.py lines 77-81)
ResyncBarrier(m, t) ==
    [m EXCEPT !._prev_orderbooks = [bids |-> <<>>, asks |-> <<>>],
              !._warmed_up = FALSE,
              !._quiet_until = t + _quiet_period_sec,
              !._price_monitor = PriceMonitor]

\* the stream ended and _run_ws has connected again
_run_ws_reconnected ==
    /\ script = MULTI_MARKET_MONITOR
    /\ mm_task.pc = "recv"
    /\ mm_hist.reconnects < MaxMmReconnects
    /\ mm' = ResyncBarrier(mm, now)
    /\ mm_hist' = [mm_hist EXCEPT !.reconnects = @ + 1]
    /\ UNCHANGED mm_task

MmUpdate ==
    /\ mm_hist.updates < MaxEvents
    /\ \E update_bids \in MmSideUpdates, update_asks \in MmSideUpdates :
          _process_orderbook(update_bids, update_asks)
    /\ UNCHANGED <<script, clockVars, wbiVars, gateVars, extVars>>
MmSendOver ==
    /\ \E ok \in BOOLEAN : _send_order_alert_returns(ok)
    /\ UNCHANGED <<script, clockVars, wbiVars, gateVars, extVars>>
MmReconnect ==
    /\ _run_ws_reconnected
    /\ UNCHANGED <<script, clockVars, wbiVars, gateVars, extVars>>

\* around a reconnect: bids at two price levels over one ask level, the clock in
\* steps that end inside and outside the quiet period
QuietPrices == {3, 4}
QuietSizes == {1, 7}
QuietBidUpdates == UNION {[ps -> QuietSizes] : ps \in SUBSET QuietPrices}
QuietAskUpdates == {<<>>, [p \in {5} |-> 1]}
QuietStep == _quiet_period_sec - 2
QuietUpdate ==
    /\ mm_hist.updates < MaxQuietEvents
    /\ \E update_bids \in QuietBidUpdates, update_asks \in QuietAskUpdates :
          _process_orderbook(update_bids, update_asks)
    /\ UNCHANGED <<script, clockVars, wbiVars, gateVars, extVars>>
QuietClock ==
    /\ script = MULTI_MARKET_MONITOR
    /\ advances < MaxQuietAdvances
    /\ now' = now + QuietStep
    /\ advances' = advances + 1
    /\ UNCHANGED <<script, wbiVars, gateVars, mmVars, extVars>>

InitMm ==
    /\ mm = [_prev_orderbooks |-> [bids |-> <<>>, asks |-> <<>>],
             _warmed_up |-> FALSE,
             _alerted |-> <<>>,
             _total_order_alerts |-> 0,
             _total_price_alerts |-> 0,
             _price_monitor |-> PriceMonitor,
             _quiet_until |-> NoTime,
             _last_send_time |-> NoTime]
    /\ mm_task = MmReceiving
    /\ mm_hist = [alerts |-> <<>>, updates |-> 0, reconnects |-> 0, quiet_alerts |-> 0,
                  last_update |-> [quiet |-> FALSE, reconnected |-> FALSE,
                                   warmed_up |-> FALSE,
                                   fresh_walls |-> {}, alerted |-> {}]]

(***************************************************************************)
(* Part IV: the reconnect loop of a stream shard, as written three times:  *)
(* BinanceMultiConnectionMonitor.handle_connection, MultiMarketMonitor.    *)
(* _run_ws and BinanceWebSocketManager.handle_connection.  The message     *)
(* loop of a connection is one state here ("stream"); Parts II and III     *)
(* model what it does with a message.  Delays are in seconds.              *)
(***************************************************************************)
BINANCE_WS_MANAGER == "binance_websocket"
ShardImpls == {BINANCE_MONITOR, MULTI_MARKET_MONITOR, BINANCE_WS_MANAGER}

\* BinanceWebSocketManager(max_reconnect_attempts=10)
max_reconnect_attempts == 10
\* _run_ws: max_reconnects = 10
max_reconnects == 10
\* the dials of one connection round (handle_connection and connect)
max_retries == 3
max_reconnect_delay == 60
\* _run_ws: wait_time = min(2 ** reconnect_count, 30)
max_wait_time == 30
NoDelay == -1

RECURSIVE Pow2(_)
Pow2(n) == IF n = 0 THEN 1 ELSE 2 * Pow2(n - 1)

\* the locals of the loop on entry
ShardLoop(impl) ==
    [impl |-> impl, pc |-> "dial", reconnect_count |-> 0, reconnect_delay |-> 1,
     retry_count |-> 0]

\* history: a dial is made; if it is not the shard's first, the sleep that
\* preceded it is a back-off
NoteDial(h) ==
    [h EXCEPT !.dials = Min(@ + 1, 2),
              !.backoffs = IF h.dials > 0 THEN @ \cup {h.last_sleep} ELSE @]

\* history: a connection round failed / a connection was established
NoteRoundFailed(h) == [h EXCEPT !.failures = Min(@ + 1, max_reconnect_attempts + 1)]
NoteConnected(h) == [h EXCEPT !.failures = 0]
NoteSleep(h, delay) == [h EXCEPT !.last_sleep = delay]

\* run_binance_monitor.py handle_connection, lines 649-673 and 719-735: one
\* ws_connect of the inner retry loop; the third failure raises, the outer
\* loop sleeps reconnect_delay and doubles it
bm_ws_connect(ok) ==
    /\ shard.impl = BINANCE_MONITOR
    /\ shard.pc = "dial"
    /\ IF ok
       THEN /\ shard' = [shard EXCEPT !.pc = "stream", !.reconnect_delay = 1,
                                      !.retry_count = 0]
            /\ shard_hist' = NoteConnected(NoteDial(shard_hist))
       ELSE IF shard.retry_count + 1 < max_retries
       THEN /\ shard' = [shard EXCEPT !.retry_count = @ + 1]
            /\ shard_hist' = NoteSleep(NoteDial(shard_hist), 1)
       ELSE /\ shard' = [shard EXCEPT
                            !.retry_count = 0,
                            !.reconnect_delay = Min(2 * @, max_reconnect_delay)]
            /\ shard_hist' = NoteSleep(NoteRoundFailed(NoteDial(shard_hist)),
                                       shard.reconnect_delay)
    /\ UNCHANGED mmVars

\* lines 680-735: the message loop ends (closed, error or exception); the loop
\* sleeps reconnect_delay, doubles it and dials again
bm_stream_ends ==
    /\ shard.impl = BINANCE_MONITOR
    /\ shard.pc = "stream"
    /\ shard' = [shard EXCEPT !.pc = "dial",
                              !.reconnect_delay = Min(2 * @, max_reconnect_delay)]
    /\ shard_hist' = NoteSleep(shard_hist, shard.reconnect_delay)
    /\ UNCHANGED mmVars

\* _run_ws, lines 141-224: ws_connect succeeds, or raises and the handlers
\* count it and sleep; the loop ends when the count reaches max_reconnects
mm_ws_connect(ok) ==
    /\ shard.impl = MULTI_MARKET_MONITOR
    /\ shard.pc = "dial"
    /\ IF ok
       THEN /\ shard' = [shard EXCEPT !.pc = "stream", !.reconnect_count = 0]
            /\ shard_hist' = NoteConnected(NoteDial(shard_hist))
            /\ mm' = ResyncBarrier(mm, now)
       ELSE LET count == shard.reconnect_count + 1
                wait_time == Min(Pow2(count), max_wait_time)
            IN /\ shard' = [shard EXCEPT
                               !.reconnect_count = count,
                               !.pc = IF count < max_reconnects THEN "dial"
                                      ELSE "returned"]
               /\ shard_hist' = NoteSleep(NoteRoundFailed(NoteDial(shard_hist)),
                                          wait_time)
               /\ mm' = mm
    /\ UNCHANGED <<mm_task, mm_hist>>

\* lines 176-224: the stream ends.  "closed": the iterator ends or a CLOSED /
\* ERROR message breaks the loop, nothing is raised and the while loop dials
\* again at once.  "raised": a receive timeout or a client error reaches the
\* handlers, which count it and sleep
mm_stream_ends(how) ==
    /\ shard.impl = MULTI_MARKET_MONITOR
    /\ shard.pc = "stream"
    /\ IF how = "closed"
       THEN /\ shard' = [shard EXCEPT !.pc = "dial"]
            /\ shard_hist' = NoteSleep(shard_hist, 0)
       ELSE LET count == shard.reconnect_count + 1
            IN /\ shard' = [shard EXCEPT !.reconnect_count = count, !.pc = "dial"]
               /\ shard_hist' = NoteSleep(shard_hist, Min(Pow2(count), max_wait_time))
    /\ UNCHANGED mmVars

\* websocket.py handle_connection lines 171-192 with connect lines 124-155: one
\* ws_connect of connect(); after max_retries failures connect returns None, the
\* loop counts it, sleeps reconnect_delay and doubles it; at the top of the loop
\* the count is compared with max_reconnect_attempts
ws_connect(ok) ==
    /\ shard.impl = BINANCE_WS_MANAGER
    /\ shard.pc = "dial"
    /\ IF ok
       THEN /\ shard' = [shard EXCEPT !.pc = "stream", !.reconnect_count = 0,
                                      !.reconnect_delay = 1, !.retry_count = 0]
            /\ shard_hist' = NoteConnected(NoteDial(shard_hist))
       ELSE IF shard.retry_count + 1 < max_retries
       THEN /\ shard' = [shard EXCEPT !.retry_count = @ + 1]
            /\ shard_hist' = NoteSleep(NoteDial(shard_hist), 1)
       ELSE LET count == shard.reconnect_count + 1
            IN /\ shard' = [shard EXCEPT
                               !.retry_count = 0,
                               !.reconnect_count = count,
                               !.reconnect_delay = Min(2 * @, max_reconnect_delay),
                               !.pc = IF count >= max_reconnect_attempts
                                      THEN "returned" ELSE "dial"]
               /\ shard_hist' = NoteSleep(NoteRoundFailed(NoteDial(shard_hist)),
                                          shard.reconnect_delay)
    /\ UNCHANGED mmVars

\* websocket.py lines 200-247: the message loop ends; the loop counts a
\* reconnect, sleeps reconnect_delay and doubles it
ws_stream_ends ==
    /\ shard.impl = BINANCE_WS_MANAGER
    /\ shard.pc = "stream"
    /\ LET count == shard.reconnect_count + 1
       IN shard' = [shard EXCEPT
                        !.reconnect_count = count,
                        !.reconnect_delay = Min(2 * @, max_reconnect_delay),
                        !.pc = IF count >= max_reconnect_attempts
                               THEN "returned" ELSE "dial"]
    /\ shard_hist' = NoteSleep(shard_hist, shard.reconnect_delay)
    /\ UNCHANGED mmVars

ShardDial ==
    /\ \E ok \in BOOLEAN : bm_ws_connect(ok) \/ mm_ws_connect(ok) \/ ws_connect(ok)
    /\ UNCHANGED <<coreVars, conn_gate, bucket, whale, smart_filter, lateVars>>
ShardStreamEnds ==
    /\ \/ bm_stream_ends
       \/ \E how \in {"closed", "raised"} : mm_stream_ends(how)
       \/ ws_stream_ends
    /\ UNCHANGED <<coreVars, conn_gate, bucket, whale, smart_filter, lateVars>>

InitShardHist ==
    shard_hist = [failures |-> 0, dials |-> 0, last_sleep |-> NoDelay, backoffs |-> {}]
InitShard ==
    /\ shard = ShardLoop(BINANCE_MONITOR)
    /\ InitShardHist
InitShards ==
    /\ shard \in {ShardLoop(impl) : impl \in ShardImpls}
    /\ InitShardHist

(***************************************************************************)
(* Part V: BinanceWebSocketManager.wait_for_rate_limit, the gate every     *)
(* ws_connect of connect() passes first.  rate_limit_max is 280 in the     *)
(* source and scaled to 2 here; the deque's maxlen of 300 is above it and  *)
(* never reached.                                                          *)
(***************************************************************************)
rate_limit_window == 300
rate_limit_max == 2
\* line 90: wait_seconds = max(1, min(wait_seconds, 60))
max_wait_seconds == 60
\* the connection tasks that call the gate
GateCallers == {1, 2}

RECURSIVE PopOlder(_, _)
PopOlder(timestamps, cutoff) ==
    IF timestamps # <<>> /\ Head(timestamps) < cutoff
    THEN PopOlder(Tail(timestamps), cutoff)
    ELSE timestamps

GateIdle == [pc |-> "idle", now |-> NoTime, wake |-> NoTime]

\* lines 79-92: the caller reads the clock, purges, and either goes to sleep or
\* falls through to line 95
wait_for_rate_limit(c) ==
    /\ conn_gate.callers[c].pc = "idle"
    /\ conn_gate.calls < MaxGateCalls
    /\ LET cutoff == now - rate_limit_window
           timestamps == PopOlder(conn_gate._connection_timestamps, cutoff)
       IN IF Len(timestamps) >= rate_limit_max
          THEN LET oldest == Head(timestamps)
                   wait_seconds == Max(1, Min(oldest + rate_limit_window - now,
                                              max_wait_seconds))
               IN conn_gate' = [conn_gate EXCEPT
                      !._connection_timestamps = timestamps,
                      !.calls = @ + 1,
                      !.callers[c] = [pc |-> "sleep", now |-> now,
                                      wake |-> now + wait_seconds]]
          ELSE conn_gate' = [conn_gate EXCEPT
                      !._connection_timestamps = Append(timestamps, now),
                      !.calls = @ + 1,
                      !.admitted = Append(@, now)]

\* lines 93-95: the sleep is over; the time read before it is recorded and the
\* caller goes on to dial
wait_for_rate_limit_wakes(c) ==
    /\ conn_gate.callers[c].pc = "sleep"
    /\ now >= conn_gate.callers[c].wake
    /\ conn_gate' = [conn_gate EXCEPT
           !._connection_timestamps = Append(@, conn_gate.callers[c].now),
           !.callers[c] = GateIdle,
           !.admitted = Append(@, now)]

GateCall ==
    /\ \E c \in GateCallers : wait_for_rate_limit(c)
    /\ UNCHANGED <<coreVars, mmVars, shardVars, bucket, whale, smart_filter, lateVars>>
GateWake ==
    /\ \E c \in GateCallers : wait_for_rate_limit_wakes(c)
    /\ UNCHANGED <<coreVars, mmVars, shardVars, bucket, whale, smart_filter, lateVars>>
\* time passes, in steps of the longest sleep; a sleeper that is due wakes first
RateClock ==
    /\ advances < MaxRateAdvances
    /\ \A c \in GateCallers :
          conn_gate.callers[c].pc = "sleep" => conn_gate.callers[c].wake > now
    /\ now' = now + max_wait_seconds
    /\ advances' = advances + 1
    /\ UNCHANGED <<script, wbiVars, gateVars, mmVars, extVars>>

InitConnGate ==
    conn_gate = [_connection_timestamps |-> <<>>,
                 callers |-> [c \in GateCallers |-> GateIdle],
                 calls |-> 0,
                 admitted |-> <<>>]

(***************************************************************************)
(* Part VI: connectors/retry.py TokenBucketLimiter.  One token of the      *)
(* model is `rate` tokens of the source per second, so that waits are      *)
(* whole seconds.  self._lock is an asyncio.Lock: release wakes the first  *)
(* waiter, and a caller takes the fast path only if nobody waits.          *)
(***************************************************************************)
rate == 1
capacity == 2
BucketCallers == {1, 2, 3}
\* the tokens a call may ask for
Requests == {1, 2}

CeilDiv(n, d) == (n + d - 1) \div d

\* line 183: wait_time = deficit / self.rate
WaitTime_slow(deficit) == 2 * CeilDiv(deficit, rate) + 1
WaitTime(deficit) == CeilDiv(deficit, rate)

\* asyncio.Lock._wake_up_first: the waiter whose turn it is
FirstWaiter_last(waiters) == waiters[Len(waiters)]
FirstWaiter(waiters) == Head(waiters)

BucketIdle == [pc |-> "idle", n |-> 0, call |-> 0, wake |-> NoTime]

\* history: the call of caller c is granted at t
NoteGrant(b, c, t) ==
    [b EXCEPT !.grants = Append(@, [call |-> b.callers[c].call, done |-> t])]

\* the lock is released (the end of `async with self._lock`): the first waiter
\* is woken and will take the lock when it runs
ReleaseLock(b) ==
    IF b._waiters = <<>> THEN [b EXCEPT !._locked = FALSE]
    ELSE [b EXCEPT !._locked = FALSE,
                   !.callers[FirstWaiter(b._waiters)].pc = "woken"]

\* lines 166-188, with the lock held: refill, then take the tokens and return,
\* or empty the bucket and sleep for the deficit with the lock still held
EnterBucket(b, c, t) ==
    LET n == b.callers[c].n
        elapsed == t - b._last_update
        tokens == Min(capacity, b.tokens + elapsed * rate)
    IN IF tokens >= n
       THEN ReleaseLock([NoteGrant(b, c, t) EXCEPT !.tokens = tokens - n,
                                                   !._last_update = t,
                                                   !.callers[c] = BucketIdle])
       ELSE [b EXCEPT !.tokens = 0,
                      !._last_update = t,
                      !._locked = TRUE,
                      !.callers[c].pc = "sleep",
                      !.callers[c].wake = t + WaitTime(n - tokens)]

\* the tokens asked for by the calls that are not granted yet
RECURSIVE PendingTokens(_, _)
PendingTokens(b, cs) ==
    IF cs = {} THEN 0
    ELSE LET c == CHOOSE x \in cs : TRUE
         IN (IF b.callers[c].pc = "idle" THEN 0 ELSE b.callers[c].n)
                + PendingTokens(b, cs \ {c})

\* acquire(tokens), line 165: the caller takes the lock if it is free and nobody
\* waits for it, and queues for it otherwise
acquire(c, n) ==
    /\ bucket.callers[c].pc = "idle"
    /\ Len(bucket.calls) < MaxAcquires
    /\ LET call == Len(bucket.calls) + 1
           b1 == [bucket EXCEPT
                     !.calls = Append(@, [caller |-> c, n |-> n, called |-> now,
                                          ahead |-> PendingTokens(bucket, BucketCallers)]),
                     !.callers[c] = [pc |-> "wait_lock", n |-> n, call |-> call,
                                     wake |-> NoTime]]
       IN IF ~bucket._locked /\ bucket._waiters = <<>>
          THEN bucket' = EnterBucket(b1, c, now)
          ELSE bucket' = [b1 EXCEPT !._waiters = Append(@, c),
                                    !.max_waiters = Min(Len(bucket._waiters) + 1, 2)]

\* a woken waiter runs: it leaves the queue, holds the lock and enters
lock_acquired(c) ==
    /\ bucket.callers[c].pc = "woken"
    /\ bucket' = EnterBucket(
           [bucket EXCEPT !._waiters = SelectSeq(@, LAMBDA w : w # c)], c, now)

\* lines 188-190: the sleep is over; acquire returns and the lock is released
sleep_returns(c) ==
    /\ bucket.callers[c].pc = "sleep"
    /\ now >= bucket.callers[c].wake
    /\ bucket' = ReleaseLock([NoteGrant(bucket, c, now) EXCEPT !.callers[c] = BucketIdle])

BucketAcquire ==
    /\ \E c \in BucketCallers, n \in Requests : acquire(c, n)
    /\ UNCHANGED <<coreVars, mmVars, shardVars, conn_gate, whale, smart_filter, lateVars>>
BucketLockAcquired ==
    /\ \E c \in BucketCallers : lock_acquired(c)
    /\ UNCHANGED <<coreVars, mmVars, shardVars, conn_gate, whale, smart_filter, lateVars>>
BucketSleepOver ==
    /\ \E c \in BucketCallers : sleep_returns(c)
    /\ UNCHANGED <<coreVars, mmVars, shardVars, conn_gate, whale, smart_filter, lateVars>>
\* a second passes; the tasks that can run have run
BucketClock ==
    /\ advances < MaxBucketAdvances
    /\ \A c \in BucketCallers :
          /\ bucket.callers[c].pc # "woken"
          /\ bucket.callers[c].pc = "sleep" => bucket.callers[c].wake > now
    /\ now' = now + 1
    /\ advances' = advances + 1
    /\ UNCHANGED <<script, wbiVars, gateVars, mmVars, extVars>>

InitBucket ==
    bucket = [tokens |-> capacity, _last_update |-> 0, _locked |-> FALSE,
              _waiters |-> <<>>,
              callers |-> [c \in BucketCallers |-> BucketIdle],
              calls |-> <<>>, grants |-> <<>>, max_waiters |-> 0]

(***************************************************************************)
(* Part VII: monitoring/whale_tracker.py, detect_stop_hunt over the        *)
(* price_history that update_price appends to.  The record counts that     *)
(* detect_stop_hunt asks for (100 in all, 10 in the hour) are scaled down; *)
(* the deque's maxlen of 3600 is never reached.                            *)
(***************************************************************************)
stop_hunt_rebound_seconds == 10
stop_hunt_volume_ratio == 3
\* line 304: len(tracker.price_history) < 100, scaled
min_price_history == 8
\* line 311: len(recent_prices) < 10, scaled
min_recent_prices == 7
\* line 322: len(very_recent) < 3
min_very_recent == 3
SecondsPerHour == 3600
\* seconds between two clock readings of the tracker
WhaleStep == 3
WhalePrices == {9, 10, 11}
WhaleVolumes == {0, 9}

PriceRecord(timestamp, price, volume) ==
    [timestamp |-> timestamp, price |-> price, volume |-> volume]

\* a quiet hour so far: six records at one price without volume
QuietHours == {[i \in 1..6 |-> PriceRecord(0, p, 0)] : p \in {10, 11}}

RECURSIVE SumVolume(_)
SumVolume(records) ==
    IF records = <<>> THEN 0 ELSE Head(records).volume + SumVolume(Tail(records))

null_signal == [is_detected |-> FALSE, support_price |-> 0, breakthrough_price |-> 0,
                rebound_price |-> 0]

\* detect_stop_hunt, lines 281-355, on the symbol's price_history at time t
StopHuntSignal(price_history, t) ==
    IF Len(price_history) < min_price_history THEN null_signal
    ELSE
    LET cutoff_1h == t - SecondsPerHour
        recent_prices == SelectSeq(price_history, LAMBDA p : p.timestamp >= cutoff_1h)
    IN IF Len(recent_prices) < min_recent_prices THEN null_signal
       ELSE
       LET support_price == SeqMin({recent_prices[i].price : i \in 1..Len(recent_prices)})
           cutoff_recent == t - stop_hunt_rebound_seconds
           very_recent == SelectSeq(recent_prices, LAMBDA p : p.timestamp >= cutoff_recent)
           breakthrough == SelectSeq(very_recent, LAMBDA p : p.price < support_price)
       IN IF Len(very_recent) < min_very_recent \/ breakthrough = <<>> THEN null_signal
          ELSE
          LET breakthrough_price ==
                  SeqMin({breakthrough[i].price : i \in 1..Len(breakthrough)})
              rebound == SelectSeq(very_recent,
                                   LAMBDA p : /\ p.price >= support_price
                                              /\ p.timestamp > breakthrough[1].timestamp)
              \* volume_ratio >= stop_hunt_volume_ratio, cross-multiplied:
              \* recent_volume / (avg_volume * len(very_recent))
              volume_ok == /\ SumVolume(recent_prices) > 0
                           /\ SumVolume(very_recent) * Len(recent_prices)
                                  >= stop_hunt_volume_ratio * SumVolume(recent_prices)
                                         * Len(very_recent)
          IN IF rebound = <<>> \/ ~volume_ok THEN null_signal
             ELSE [is_detected |-> TRUE, support_price |-> support_price,
                   breakthrough_price |-> breakthrough_price,
                   rebound_price |-> rebound[Len(rebound)].price]

\* the three conditions of a stop hunt on a history that is long enough: record
\* i of the last stop_hunt_rebound_seconds is below every price before it,
\* a later record j is back at or above that low, and the volume of the last
\* seconds is stop_hunt_volume_ratio times the hour's average per record
StopHuntHappened(price_history, t) ==
    LET n == Len(price_history)
        InHour(i) == price_history[i].timestamp >= t - SecondsPerHour
        Recent(i) == price_history[i].timestamp >= t - stop_hunt_rebound_seconds
        hour == SelectSeq(price_history, LAMBDA p : p.timestamp >= t - SecondsPerHour)
        last == SelectSeq(price_history,
                          LAMBDA p : p.timestamp >= t - stop_hunt_rebound_seconds)
    IN /\ n >= min_price_history
       /\ Len(hour) >= min_recent_prices
       /\ Len(last) >= min_very_recent
       /\ \E i \in 2..n, j \in 2..n :
             /\ i < j /\ Recent(i) /\ InHour(1)
             /\ price_history[j].timestamp > price_history[i].timestamp
             /\ LET low == SeqMin({price_history[k].price : k \in 1..(i - 1)})
                IN /\ price_history[i].price < low
                   /\ price_history[j].price >= low
       /\ SumVolume(hour) > 0
       /\ SumVolume(last) * Len(hour)
              >= stop_hunt_volume_ratio * SumVolume(hour) * Len(last)

\* update_price(symbol, price, volume), lines 214-227
update_price(price, volume) ==
    /\ Len(whale.price_history) < 6 + MaxRecentRecords
    /\ whale' = [whale EXCEPT
                    !.price_history = Append(@, PriceRecord(now, price, volume)),
                    !.checked = FALSE]

\* detect_stop_hunt(symbol)
detect_stop_hunt ==
    /\ ~whale.checked
    /\ whale' = [whale EXCEPT
                    !.checked = TRUE,
                    !.signal = StopHuntSignal(whale.price_history, now),
                    !.happened = StopHuntHappened(whale.price_history, now)]

WhaleUpdatePrice ==
    /\ \E price \in WhalePrices, volume \in WhaleVolumes : update_price(price, volume)
    /\ UNCHANGED <<coreVars, mmVars, shardVars, conn_gate, bucket, smart_filter, lateVars>>
WhaleDetect ==
    /\ detect_stop_hunt
    /\ UNCHANGED <<coreVars, mmVars, shardVars, conn_gate, bucket, smart_filter, lateVars>>
WhaleClock ==
    /\ advances < MaxWhaleAdvances
    /\ now' = now + WhaleStep
    /\ advances' = advances + 1
    /\ whale' = [whale EXCEPT !.checked = FALSE]
    /\ UNCHANGED <<script, wbiVars, gateVars, mmVars, shardVars, conn_gate, bucket,
                   smart_filter, lateVars>>

NoWhaleCheck == [checked |-> TRUE, signal |-> null_signal, happened |-> FALSE]
InitWhale ==
    whale = [price_history |-> <<>>] @@ NoWhaleCheck
InitWhales ==
    whale \in {[price_history |-> h] @@ NoWhaleCheck : h \in QuietHours}

(***************************************************************************)
(* Part VIII: monitoring/smart_filter.py, SymbolStats and                  *)
(* SmartAlertFilter.get_dynamic_threshold.  Slippage is in hundredths of a *)
(* percent; window_size (1000) and min_samples (100) are scaled down.      *)
(***************************************************************************)
window_size == 3
min_samples == 2
ttl_seconds == 3600
percentile == 95
fallback_default == 200
fallback_major == 150
min_threshold_major == 50
min_threshold_default == 100
\* seconds between two clock readings of the filter
FilterStep == 1800
FilterSymbols == {"ETH-USDT", "PEPE-USDT"}
SlippageSamples == {40, 120, 300}

\* _is_major, lines 160-163: ETH is in major_symbols, PEPE is not
_is_major(symbol) == symbol = "ETH-USDT"

TimestampedValue(value, timestamp) == [value |-> value, timestamp |-> timestamp]

\* SortedList.add: after the items that are not greater (TimestampedValue
\* orders by value)
RECURSIVE SortedAdd(_, _)
SortedAdd(sorted, item) ==
    IF sorted = <<>> THEN <<item>>
    ELSE IF item.value < Head(sorted).value THEN <<item>> \o sorted
    ELSE <<Head(sorted)>> \o SortedAdd(Tail(sorted), item)

\* SortedList.remove: the item at the first position that is not smaller is
\* removed when it equals the item; otherwise ValueError, the list unchanged
RECURSIVE SortedRemove(_, _)
SortedRemove(sorted, item) ==
    IF sorted = <<>> THEN sorted
    ELSE IF Head(sorted).value < item.value
         THEN <<Head(sorted)>> \o SortedRemove(Tail(sorted), item)
    ELSE IF Head(sorted) = item THEN Tail(sorted)
    ELSE sorted

\* SymbolStats.add, lines 58-70
StatsAdd(stats, value, t) ==
    LET item == TimestampedValue(value, t)
        sorted == SortedAdd(stats._sorted_values, item)
        queue == Append(stats._time_queue, item)
    IN IF Len(sorted) > window_size
       THEN [_sorted_values |-> SortedRemove(sorted, Head(queue)),
             _time_queue |-> Tail(queue)]
       ELSE [_sorted_values |-> sorted, _time_queue |-> queue]

\* SymbolStats.cleanup_expired, lines 72-88
RECURSIVE cleanup_expired(_, _)
cleanup_expired(stats, t) ==
    IF stats._time_queue # <<>> /\ Head(stats._time_queue).timestamp < t - ttl_seconds
    THEN cleanup_expired(
             [_sorted_values |-> SortedRemove(stats._sorted_values,
                                              Head(stats._time_queue)),
              _time_queue |-> Tail(stats._time_queue)], t)
    ELSE stats

\* the value get_percentile returns on a non-empty list, lines 97-99
PercentileOf(sorted, pct) ==
    LET index == (Len(sorted) * pct) \div 100
        \* Python counts positions from 0
    IN sorted[(IF index < Len(sorted) - 1 THEN index ELSE Len(sorted) - 1) + 1].value

Fallback(symbol) == IF _is_major(symbol) THEN fallback_major ELSE fallback_default
MinThreshold(symbol) ==
    IF _is_major(symbol) THEN min_threshold_major ELSE min_threshold_default
Max2(a, b) == IF a >= b THEN a ELSE b

\* the threshold get_dynamic_threshold returns, lines 170-194: count is read
\* before get_percentile cleans up
DynamicThreshold(symbol, stats, t) ==
    IF Len(stats._sorted_values) < min_samples THEN Fallback(symbol)
    ELSE LET cleaned == cleanup_expired(stats, t)
         IN IF cleaned._sorted_values = <<>> THEN Fallback(symbol)
            ELSE Max2(PercentileOf(cleaned._sorted_values, percentile),
                      MinThreshold(symbol))

\* the samples of the window that have not expired at time t
Unexpired(stats, t) ==
    SelectSeq(stats._sorted_values, LAMBDA item : item.timestamp >= t - ttl_seconds)

\* the threshold by the rule: the fallback below min_samples unexpired
\* samples, else the larger of their percentile and the floor
RuleThreshold(symbol, stats, t) ==
    LET live == Unexpired(stats, t)
    IN IF Len(live) < min_samples THEN Fallback(symbol)
       ELSE Max2(PercentileOf(live, percentile), MinThreshold(symbol))

\* record_slippage(symbol, slippage), lines 165-168
record_slippage(symbol, slippage) ==
    /\ smart_filter.records < MaxSlippageRecords
    /\ smart_filter' = [smart_filter EXCEPT
           !._stats[symbol] = StatsAdd(@, slippage, now),
           !.records = @ + 1,
           !.last = [called |-> FALSE, symbol |-> symbol, n |-> 0, live |-> 0,
                     threshold |-> 0, rule |-> 0]]

\* get_dynamic_threshold(symbol), lines 170-194
get_dynamic_threshold(symbol) ==
    LET stats == smart_filter._stats[symbol]
    IN /\ ~(smart_filter.last.called /\ smart_filter.last.symbol = symbol)
       /\ smart_filter' = [smart_filter EXCEPT
              !._stats[symbol] = IF Len(stats._sorted_values) < min_samples
                                 THEN stats ELSE cleanup_expired(stats, now),
              !.last = [called |-> TRUE, symbol |-> symbol,
                        n |-> Len(stats._sorted_values),
                        live |-> Len(Unexpired(stats, now)),
                        threshold |-> DynamicThreshold(symbol, stats, now),
                        rule |-> RuleThreshold(symbol, stats, now)]]

FilterRecord ==
    /\ \E symbol \in FilterSymbols, slippage \in SlippageSamples :
           record_slippage(symbol, slippage)
    /\ UNCHANGED <<coreVars, mmVars, shardVars, conn_gate, bucket, whale, lateVars>>
FilterThreshold ==
    /\ \E symbol \in FilterSymbols : get_dynamic_threshold(symbol)
    /\ UNCHANGED <<coreVars, mmVars, shardVars, conn_gate, bucket, whale, lateVars>>
FilterClock ==
    /\ advances < MaxFilterAdvances
    /\ now' = now + FilterStep
    /\ advances' = advances + 1
    /\ smart_filter' = [smart_filter EXCEPT !.last.called = FALSE]
    /\ UNCHANGED <<script, wbiVars, gateVars, mmVars, shardVars, conn_gate, bucket,
                   whale, lateVars>>

InitFilter ==
    smart_filter = [_stats |-> [symbol \in FilterSymbols |->
                                   [_sorted_values |-> <<>>, _time_queue |-> <<>>]],
                    records |-> 0,
                    last |-> [called |-> FALSE, symbol |-> "ETH-USDT", n |-> 0,
                              live |-> 0, threshold |-> 0, rule |-> 0]]

(***************************************************************************)
(* Part IX: monitoring/price_monitor.py, one PriceMonitor through updates  *)
(* and resets (reset is what _run_ws calls on every reconnect).            *)
(***************************************************************************)
PriceStepSeconds == 30
MonitorPrices == {100, 101}
Directions == {"pump", "dump"}

\* PriceMonitor.reset, lines 77-81
PriceMonitorReset(pm) ==
    [pm EXCEPT !._price_history = <<>>, !._last_pump_alert = NoTime,
               !._last_dump_alert = NoTime]

\* history: the time of the last alert of the direction and the smallest gap
\* between two alerts of the direction
NotePriceAlert(h, alert, t) ==
    IF alert = "" THEN h
    ELSE [h EXCEPT ![alert] =
             [ts |-> t,
              gap |-> IF @.ts = NoTime THEN @.gap
                      ELSE IF @.gap = NoTime THEN t - @.ts ELSE Min(@.gap, t - @.ts),
              after_reset |-> @.after_reset \/ (@.ts # NoTime /\ price_mon.reset_since[alert])]]

\* update(price), lines 83-142
PmUpdate ==
    /\ price_mon.updates < MaxPriceUpdates
    /\ \E price \in MonitorPrices :
          LET r == PriceMonitorUpdate(price_mon.pm, price, now)
          IN price_mon' = [price_mon EXCEPT
                 !.pm = r.pm,
                 !.updates = @ + 1,
                 !.alerts = NotePriceAlert(@, r.alert, now),
                 !.reset_since = [d \in Directions |->
                                     IF d = r.alert THEN FALSE ELSE @[d]]]
    /\ UNCHANGED <<coreVars, mmVars, earlyVars, basis, aggregator, unified, processor,
                   hot_config, pool, tailVars>>

\* reset(), lines 77-81
PmReset ==
    /\ price_mon.resets < MaxPriceResets
    /\ price_mon' = [price_mon EXCEPT
           !.pm = PriceMonitorReset(@),
           !.resets = @ + 1,
           !.reset_since = [d \in Directions |-> TRUE]]
    /\ UNCHANGED <<coreVars, mmVars, earlyVars, basis, aggregator, unified, processor,
                   hot_config, pool, tailVars>>

PmClock ==
    /\ advances < MaxPriceAdvances
    /\ now' = now + PriceStepSeconds
    /\ advances' = advances + 1
    /\ UNCHANGED <<script, wbiVars, gateVars, mmVars, extVars>>

InitPriceMon ==
    price_mon = [pm |-> PriceMonitor, updates |-> 0, resets |-> 0,
                 alerts |-> [d \in Directions |->
                                [ts |-> NoTime, gap |-> NoTime, after_reset |-> FALSE]],
                 reset_since |-> [d \in Directions |-> FALSE]]

(***************************************************************************)
(* Part X: monitoring/basis_tracker.py.  Prices are integers; the basis in *)
(* percent is compared by cross-multiplication.                            *)
(***************************************************************************)
DEFAULT_ALERT_THRESHOLD == 1
DEFAULT_COOLDOWN_SECONDS == 300
DEFAULT_STALE_SECONDS == 60
MAX_PENDING_ALERTS == 50
BasisStepSeconds == 60
NoPrice == -1
\* a symbol as the caller writes it: a venue prefix ("" for none) and the name
BasisSymbolNames == {"BTCUSDT", "ETHUSDT"}
BasisSymbolInputs == {<<"", "BTCUSDT">>, <<"spot", "BTCUSDT">>, <<"", "ETHUSDT">>}
BasisPrices == {0, 100, 101}

\* _normalize_symbol, lines 115-123
_normalize_symbol(symbol) == symbol[2]

SymbolBasisState == [spot_price |-> NoPrice, futures_price |-> NoPrice,
                     spot_update_time |-> NoTime, futures_update_time |-> NoTime,
                     last_alert_time |-> NoTime]

\* lines 173-181 of _check_alert: a price older than stale_seconds
BasisStale(update_time, t) == update_time # NoTime /\ t - update_time > DEFAULT_STALE_SECONDS

\* lines 187-189: abs(basis_pct) < alert_threshold, basis_pct in percent of spot
BasisBelowThreshold(state) ==
    100 * Abs(state.futures_price - state.spot_price)
        < DEFAULT_ALERT_THRESHOLD * state.spot_price

BasisInCooldown_never(state, t) == FALSE

\* lines 191-195
BasisInCooldown(state, t) ==
    state.last_alert_time # NoTime /\ t - state.last_alert_time < DEFAULT_COOLDOWN_SECONDS

\* _check_alert, lines 160-216, on the symbol's state: is an alert produced
_check_alert(state, t) ==
    /\ state.spot_price # NoPrice /\ state.futures_price # NoPrice
    /\ ~BasisStale(state.spot_update_time, t)
    /\ ~BasisStale(state.futures_update_time, t)
    /\ ~BasisBelowThreshold(state)
    /\ ~BasisInCooldown(state, t)

\* the deque of pending alerts, maxlen MAX_PENDING_ALERTS
PendingAppend(pending, alert) ==
    IF Len(pending) >= MAX_PENDING_ALERTS THEN Append(Tail(pending), alert)
    ELSE Append(pending, alert)

\* update_price(symbol, price, is_futures), lines 125-158
basis_update_price(symbol, price, is_futures) ==
    LET name == _normalize_symbol(symbol)
        before == basis._states[name]
        state == IF is_futures
                 THEN [before EXCEPT !.futures_price = price, !.futures_update_time = now]
                 ELSE [before EXCEPT !.spot_price = price, !.spot_update_time = now]
        alert == _check_alert(state, now)
        noted == [alerted |-> alert, symbol |-> name, t |-> now,
                  spot_price |-> state.spot_price, futures_price |-> state.futures_price,
                  spot_age |-> IF state.spot_update_time = NoTime THEN NoTime
                               ELSE now - state.spot_update_time,
                  futures_age |-> IF state.futures_update_time = NoTime THEN NoTime
                                  ELSE now - state.futures_update_time,
                  previous |-> basis.alert_times[name]]
    IN IF price <= 0
       THEN basis' = [basis EXCEPT !.updates = @ + 1, !.last.alerted = FALSE]
       ELSE basis' = [basis EXCEPT
                !.updates = @ + 1,
                !._states[name] = IF alert THEN [state EXCEPT !.last_alert_time = now]
                                  ELSE state,
                !._pending_alerts = IF alert THEN PendingAppend(@, name) ELSE @,
                !.alert_times[name] = IF alert THEN now ELSE @,
                !.last = noted]

BasisUpdate ==
    /\ basis.updates < MaxBasisUpdates
    /\ \E symbol \in BasisSymbolInputs, price \in BasisPrices, is_futures \in BOOLEAN :
           basis_update_price(symbol, price, is_futures)
    /\ UNCHANGED <<coreVars, mmVars, earlyVars, price_mon, aggregator, unified,
                   processor,
                   hot_config, pool, tailVars>>

\* get_pending_alerts(), lines 218-222
get_pending_alerts ==
    /\ basis._pending_alerts # <<>>
    /\ basis' = [basis EXCEPT !._pending_alerts = <<>>]
    /\ UNCHANGED <<coreVars, mmVars, earlyVars, price_mon, aggregator, unified,
                   processor,
                   hot_config, pool, tailVars>>

BasisClock ==
    /\ advances < MaxBasisAdvances
    /\ now' = now + BasisStepSeconds
    /\ advances' = advances + 1
    /\ UNCHANGED <<script, wbiVars, gateVars, mmVars, extVars>>

InitBasis ==
    basis = [_states |-> [name \in BasisSymbolNames |-> SymbolBasisState],
             _pending_alerts |-> <<>>,
             updates |-> 0,
             alert_times |-> [name \in BasisSymbolNames |-> NoTime],
             last |-> [alerted |-> FALSE, symbol |-> "BTCUSDT", t |-> NoTime,
                       spot_price |-> NoPrice, futures_price |-> NoPrice,
                       spot_age |-> NoTime, futures_age |-> NoTime,
                       previous |-> NoTime]]

(***************************************************************************)
(* Part XI: monitoring/alert_aggregator.py.  _buckets is a dict: a         *)
(* function whose domain grows with the keys seen.                         *)
(***************************************************************************)
window_seconds == 60
AggStepSeconds == 30
immediate_levels == {"high"}
AggSymbols == {"ETH-USDT", "BTC-USDT"}
AggMarkets == {"spot", "futures"}
AggLevels == {"low", "medium", "high"}
\* value and slippage of an alert
AggAmounts == {<<1, 3>>, <<2, 1>>}

_get_bucket_key_symbol_only(symbol, market) == symbol

\* _get_bucket_key, lines 106-108
_get_bucket_key(symbol, market) == market \o ":" \o symbol

\* AlertBucket(symbol=, market=), lines 35-45
AlertBucket(symbol, market, t) ==
    [symbol |-> symbol, market |-> market, first_time |-> t, last_time |-> t,
     count |-> 0, total_value |-> 0, max_slippage |-> 0, levels |-> <<>>]

\* AlertBucket.add, lines 47-53
BucketAdd(b, value, slippage, level, t) ==
    [b EXCEPT !.count = @ + 1,
                   !.total_value = @ + value,
                   !.max_slippage = Max(@, slippage),
                   !.last_time = t,
                   !.levels = Append(@, level)]

\* AlertBucket.get_highest_level, lines 55-61
get_highest_level(b) ==
    IF \E i \in 1..Len(b.levels) : b.levels[i] = "high" THEN "high"
    ELSE IF \E i \in 1..Len(b.levels) : b.levels[i] = "medium" THEN "medium"
    ELSE "low"

\* AlertBucket.to_summary, lines 63-76: the fields the message shows; a bucket
\* of one alert shows no count
to_summary(b) ==
    IF b.count = 1
    THEN [level |-> get_highest_level(b), market |-> b.market,
          symbol |-> b.symbol, total_value |-> b.total_value,
          max_slippage |-> b.max_slippage]
    ELSE [level |-> get_highest_level(b), market |-> b.market,
          symbol |-> b.symbol, count |-> b.count,
          total_value |-> b.total_value, max_slippage |-> b.max_slippage]

NoSummary == [level |-> ""]

\* dict assignment
DictPut(d, key, v) == [k \in DOMAIN d \cup {key} |-> IF k = key THEN v ELSE d[k]]

\* add_alert, lines 110-167: the buckets afterwards and what it returns
add_alert(buckets, symbol, level, market, value, slippage, t) ==
    IF level \in immediate_levels
    THEN [buckets |-> buckets, should_send |-> TRUE,
          summary |-> to_summary(BucketAdd(AlertBucket(symbol, market, t),
                                           value, slippage, level, t))]
    ELSE
    LET key == _get_bucket_key(symbol, market)
        fresh == BucketAdd(AlertBucket(symbol, market, t), value, slippage, level, t)
    IN IF key \in DOMAIN buckets
       THEN IF t - buckets[key].first_time >= window_seconds
            THEN [buckets |-> DictPut(buckets, key, fresh), should_send |-> TRUE,
                  summary |-> to_summary(buckets[key])]
            ELSE [buckets |-> DictPut(buckets, key,
                                      BucketAdd(buckets[key], value, slippage, level, t)),
                  should_send |-> FALSE, summary |-> NoSummary]
       ELSE [buckets |-> DictPut(buckets, key, fresh), should_send |-> FALSE,
             summary |-> NoSummary]

\* flush_all, lines 169-182: the summaries of the buckets that hold an alert
flush_all(buckets) ==
    {to_summary(buckets[k]) : k \in {q \in DOMAIN buckets : buckets[q].count > 0}}

NoAggCall == [op |-> "", symbol |-> "", level |-> "", market |-> "", value |-> 0,
              slippage |-> 0, should_send |-> FALSE, summary |-> NoSummary,
              before |-> <<>>]

AggStep(agg, symbol, level, market, amount, t) ==
    LET r == add_alert(agg._buckets, symbol, level, market, amount[1], amount[2], t)
    IN [agg EXCEPT
           !._buckets = r.buckets,
           !.alerts = @ + 1,
           !.last = [op |-> "add_alert", symbol |-> symbol, level |-> level,
                     market |-> market, value |-> amount[1], slippage |-> amount[2],
                     should_send |-> r.should_send, summary |-> r.summary,
                     before |-> agg._buckets]]

AggAddAlert ==
    /\ aggregator.alerts < MaxAggAlerts
    /\ \E symbol \in AggSymbols, level \in AggLevels, market \in AggMarkets,
          amount \in AggAmounts :
           aggregator' = AggStep(aggregator, symbol, level, market, amount, now)
    /\ UNCHANGED <<coreVars, mmVars, earlyVars, price_mon, basis, unified, processor,
                   hot_config, pool, tailVars>>

AggFlushAll ==
    /\ DOMAIN aggregator._buckets # {}
    /\ aggregator' = [aggregator EXCEPT
           !._buckets = <<>>,
           !.last = [NoAggCall EXCEPT !.op = "flush_all", !.before = aggregator._buckets]]
    /\ UNCHANGED <<coreVars, mmVars, earlyVars, price_mon, basis, unified, processor,
                   hot_config, pool, tailVars>>

AggClock ==
    /\ advances < MaxAggAdvances
    /\ now' = now + AggStepSeconds
    /\ advances' = advances + 1
    /\ UNCHANGED <<script, wbiVars, gateVars, mmVars, extVars>>

InitAggregator ==
    aggregator = [_buckets |-> <<>>, alerts |-> 0, last |-> NoAggCall]

(***************************************************************************)
(* Part XII: scripts/run_unified_monitor.py, main's signal handler and     *)
(* UnifiedMonitor.stop.  The exchange monitors are the tasks of _tasks;    *)
(* alerts reach the aggregator while the monitors run.                     *)
(***************************************************************************)
Exchanges == {"lighter", "binance"}

\* signal_handler, lines 218-228: the first signal starts stop() as a task, a
\* later one exits the process at once
signal_handler ==
    /\ unified.pc # "exited"
    /\ unified' = [unified EXCEPT
           !._stop_count = @ + 1,
           !.pc = IF unified._stop_count = 0 THEN "stopping" ELSE "exited",
           !.forced = unified._stop_count >= 1]
    /\ UNCHANGED <<coreVars, mmVars, earlyVars, price_mon, basis, aggregator,
                   processor,
                   hot_config, pool, tailVars>>

\* stop(), lines 106-119: _running is cleared and the tasks are cancelled and
\* awaited one after the other
stop_cancels ==
    /\ unified.pc = "stopping"
    /\ \E name \in Exchanges : unified._tasks[name] = "running"
    /\ LET name == CHOOSE n \in Exchanges : unified._tasks[n] = "running"
       IN unified' = [unified EXCEPT !._running = FALSE, !._tasks[name] = "cancelled"]
    /\ UNCHANGED <<coreVars, mmVars, earlyVars, price_mon, basis, aggregator,
                   processor,
                   hot_config, pool, tailVars>>

\* stop() prints the final statistics; the statistics loop wakes, sees
\* _running cleared and ends; gather returns and main ends (lines 98-104,
\* 180-186, 237-240)
main_returns ==
    /\ unified.pc = "stopping"
    /\ \A name \in Exchanges : unified._tasks[name] = "cancelled"
    /\ unified' = [unified EXCEPT !._running = FALSE, !.pc = "exited"]
    /\ UNCHANGED <<coreVars, mmVars, earlyVars, price_mon, basis, aggregator,
                   processor,
                   hot_config, pool, tailVars>>

\* a monitor that still runs hands an alert to the aggregator
UnifiedAlert ==
    /\ unified.pc # "exited"
    /\ aggregator.alerts < MaxAggAlerts
    /\ \E name \in Exchanges : unified._tasks[name] = "running"
    /\ \E symbol \in AggSymbols, level \in AggLevels, market \in AggMarkets,
          amount \in AggAmounts :
           aggregator' = AggStep(aggregator, symbol, level, market, amount, now)
    /\ UNCHANGED <<coreVars, mmVars, earlyVars, price_mon, basis, unified, processor,
                   hot_config, pool, tailVars>>

InitUnified ==
    unified = [_running |-> TRUE, _tasks |-> [name \in Exchanges |-> "running"],
               _stop_count |-> 0, pc |-> "running", forced |-> FALSE]

(***************************************************************************)
(* Part XIII: monitoring/binance_processor.py, process_trade against the   *)
(* order book that process_depth caches.  One symbol on the spot market;   *)
(* slippage is in hundredths of a percent, rounded down.                   *)
(***************************************************************************)
\* min_levels of calculate_slippage (10 in the source), scaled
min_levels == 2
skip_top_levels == 1
orderbook_depth == 50
filter_cooldown_seconds == 60
ProcStepSeconds == 60
ProcSymbol == "ETH-USDT"

BookLevel(price, qty) == [price |-> price, qty |-> qty]
\* the depth snapshots the stream delivers: a side is empty, normal, or (bids)
\* above the best ask
ProcAsks == {<<>>, <<BookLevel(100, 1), BookLevel(101, 1), BookLevel(105, 50)>>}
ProcBids == {<<>>, <<BookLevel(99, 1), BookLevel(98, 1), BookLevel(94, 50)>>,
             <<BookLevel(102, 1), BookLevel(101, 1), BookLevel(97, 50)>>}
\* trades: price, size, is_buyer_maker
ProcTrades == {<<103, 2, FALSE>>, <<100, 1, FALSE>>, <<96, 2, TRUE>>, <<99, 2, TRUE>>,
               <<20, 1, FALSE>>}

\* bestBid >= bestAsk on the cached book
BookCrossed(bids, asks) ==
    bids # <<>> /\ asks # <<>> /\ bids[1].price >= asks[1].price

\* the loop of calculate_slippage, lines 158-172, from level i on: the value
\* taken, and the quantity taken as a fraction qty_num / qty_den
RECURSIVE Fill(_, _, _, _, _)
Fill(orderbook, i, remaining, qty, value) ==
    IF i > Len(orderbook) THEN [qty_num |-> qty, qty_den |-> 1, value |-> value]
    ELSE LET level == orderbook[i]
             level_value == level.price * level.qty
         IN IF level_value >= remaining
            THEN [qty_num |-> qty * level.price + remaining, qty_den |-> level.price,
                  value |-> value + remaining]
            ELSE Fill(orderbook, i + 1, remaining - level_value, qty + level.qty,
                      value + level_value)

\* calculate_slippage, lines 131-180: abs(vwap - current_price) / current_price
\* * 100 with vwap = total_value / total_qty
calculate_slippage(orderbook, order_value) ==
    IF orderbook = <<>> \/ Len(orderbook) < min_levels + skip_top_levels THEN 0
    ELSE LET current_price == orderbook[skip_top_levels + 1].price
             f == Fill(orderbook, skip_top_levels + 1, order_value, 0, 0)
         IN IF f.qty_num <= 0 THEN 0
            ELSE (10000 * Abs(f.value * f.qty_den - current_price * f.qty_num))
                     \div (current_price * f.qty_num)

\* update_orderbook, lines 182-192: a side that arrives empty leaves the cache
update_orderbook(cached, side) ==
    IF side # <<>>
    THEN SubSeq(SelectSeq(side, LAMBDA l : l.qty > 0), 1,
                Min(orderbook_depth, Len(SelectSeq(side, LAMBDA l : l.qty > 0))))
    ELSE cached

\* SmartAlertFilter.should_alert, smart_filter.py lines 196-227
should_alert(stats, last_alert_time, slippage, t) ==
    /\ ~(last_alert_time # NoTime /\ t - last_alert_time < filter_cooldown_seconds)
    /\ slippage >= DynamicThreshold(ProcSymbol, stats, t)

\* the statistics after get_dynamic_threshold has run inside should_alert
StatsAfterThreshold(stats, last_alert_time, t) ==
    IF last_alert_time # NoTime /\ t - last_alert_time < filter_cooldown_seconds
    THEN stats
    ELSE IF Len(stats._sorted_values) < min_samples THEN stats
    ELSE cleanup_expired(stats, t)

\* process_trade(symbol, price, size, is_buyer_maker, market), lines 194-256,
\* with _send_trade_alert awaited inside
proc_process_trade(price, size, is_buyer_maker) ==
    LET value == price * size
        is_buy == ~is_buyer_maker
        bids == processor.orderbook_bids
        asks == processor.orderbook_asks
        key == AlertKey("spot", ProcSymbol, "trade", price)
        p0 == [processor EXCEPT
                  !.stats["trades"] = @ + 1,
                  !.price_cache = price,
                  !.price_history_len = @ + 1,
                  !.events = @ + 1]
        slippage == calculate_slippage(IF is_buy THEN asks ELSE bids, value)
        recorded == StatsAdd(processor.filter_stats, slippage, now)
        wanted == should_alert(recorded, processor.filter_last_alert, slippage, now)
        level == get_alert_level(slippage \div 10)
        alerted == /\ wanted /\ level # NoLevel
                   /\ ~is_in_cooldown(processor.alert_cooldown, key, now)
        noted == [crossed |-> BookCrossed(bids, asks), counted |-> TRUE,
                  recorded |-> value >= get_min_order("spot"),
                  slippage |-> slippage, alerted |-> FALSE]
    IN IF value < get_min_order("spot")
       THEN [p0 EXCEPT !.last = [noted EXCEPT !.slippage = 0]]
       ELSE LET p1 == [p0 EXCEPT
                          !.filter_stats =
                              StatsAfterThreshold(recorded, processor.filter_last_alert, now),
                          !.filter_last_alert = IF wanted THEN now ELSE @]
            IN IF ~alerted THEN [p1 EXCEPT !.last = noted]
               ELSE [p1 EXCEPT
                        !.stats["alerts"] = @ + 1,
                        !.alert_cooldown = set_cooldown(@, key, now),
                        !.last = [noted EXCEPT !.alerted = TRUE]]

ProcTrade ==
    /\ processor.events < MaxProcEvents
    /\ \E trade \in ProcTrades :
           processor' = proc_process_trade(trade[1], trade[2], trade[3])
    /\ UNCHANGED <<coreVars, mmVars, earlyVars, price_mon, basis, aggregator, unified,
                   hot_config, pool, tailVars>>

\* process_depth, lines 258-283: the cache is replaced side by side
ProcDepth ==
    /\ processor.events < MaxProcEvents
    /\ \E bids \in ProcBids, asks \in ProcAsks :
           /\ bids # <<>> \/ asks # <<>>
           /\ processor' = [processor EXCEPT
                  !.orderbook_bids = update_orderbook(@, bids),
                  !.orderbook_asks = update_orderbook(@, asks),
                  !.stats["depth_updates"] = @ + 1,
                  !.events = @ + 1,
                  !.last.counted = FALSE, !.last.crossed = FALSE]
    /\ UNCHANGED <<coreVars, mmVars, earlyVars, price_mon, basis, aggregator, unified,
                   hot_config, pool, tailVars>>

ProcClock ==
    /\ advances < MaxProcAdvances
    /\ now' = now + ProcStepSeconds
    /\ advances' = advances + 1
    /\ UNCHANGED <<script, wbiVars, gateVars, mmVars, extVars>>

InitProcessor ==
    processor = [orderbook_bids |-> <<>>, orderbook_asks |-> <<>>, price_cache |-> 0,
                 price_history_len |-> 0,
                 filter_stats |-> [_sorted_values |-> <<>>, _time_queue |-> <<>>],
                 filter_last_alert |-> NoTime,
                 alert_cooldown |-> <<>>,
                 stats |-> [trades |-> 0, depth_updates |-> 0, alerts |-> 0],
                 events |-> 0,
                 last |-> [crossed |-> FALSE, counted |-> FALSE, recorded |-> FALSE,
                           slippage |-> 0, alerted |-> FALSE]]

(***************************************************************************)
(* Part XIV: monitoring/hot_config.py.  One HotConfig over its .env file   *)
(* and, when json_path is given, its JSON file.  A dict is a function      *)
(* from the keys it holds.  st_mtime of a file is the order number of the  *)
(* write that produced it, so that a later write always has a larger       *)
(* modification time.  Getters are get_float; float values are in          *)
(* hundredths.                                                             *)
(***************************************************************************)
check_interval == 5
HotStepSeconds == 3
ConfigKeys == {"SLIPPAGE_THRESHOLD_LOW"}
ConfigValues == {"0.5", "1.5", "abc"}
GetDefaults == {0, 50}
\* the callbacks the process registers, in the order it registers them
CallbackNames == <<"cb1", "cb2">>

\* float(value) raised ValueError
NotANumber == -1
\* float(value) of the strings a file may hold, line 163
to_float(value) ==
    CASE value = "0.5" -> 50
      [] value = "1.5" -> 150
      [] OTHER -> NotANumber

ConfigDicts == UNION {[K -> ConfigValues] : K \in SUBSET ConfigKeys}
MissingFile == [exists |-> FALSE, parseable |-> TRUE, data |-> <<>>]
\* _parse_env skips every line it cannot read: a .env file always parses
EnvFiles == {MissingFile} \cup
            {[exists |-> TRUE, parseable |-> TRUE, data |-> d] : d \in ConfigDicts}
UnparseableFile == [exists |-> TRUE, parseable |-> FALSE, data |-> <<>>]
JsonFiles == EnvFiles \cup {UnparseableFile}

\* dict.update
dict_update(a, b) ==
    [k \in DOMAIN a \cup DOMAIN b |-> IF k \in DOMAIN b THEN b[k] ELSE a[k]]

NoLoad == [happened |-> FALSE, raised |-> FALSE, old |-> <<>>, new |-> <<>>,
           callbacks |-> <<>>, notified |-> <<>>]
NoGet == [happened |-> FALSE, key |-> "", default |-> 0, raised |-> FALSE,
          result |-> 0, after |-> NoLoad]

\* _notify_changes, lines 185-192: every callback is called; one that raises is
\* logged and the loop goes on
_notify_changes(callbacks) == callbacks

\* _load, lines 82-104.  json.load of an unparseable file raises out of _load
\* before _config is assigned, after _last_modified took the .env file's time.
_load(hc) ==
    LET env == IF hc.env_file.exists THEN hc.env_file.data ELSE <<>>
        m1 == IF hc.env_file.exists THEN hc.env_mtime ELSE hc._last_modified
        json_read == hc.json_path /\ hc.json_file.exists
        raised == json_read /\ ~hc.json_file.parseable
        new_config == IF json_read THEN dict_update(env, hc.json_file.data) ELSE env
        m2 == IF json_read THEN Max(m1, hc.json_mtime) ELSE m1
        old_config == hc._config
        noted == [happened |-> TRUE, raised |-> raised, old |-> old_config,
                  new |-> IF raised THEN old_config ELSE new_config,
                  callbacks |-> hc._callbacks, notified |-> <<>>]
    IN IF raised
       THEN [hc EXCEPT !._last_modified = m1, !.loads = @ + 1, !.last_load = noted]
       ELSE [hc EXCEPT
                !._config = new_config,
                !.loads = @ + 1,
                !._last_modified = m2,
                !.last_load =
                    IF old_config # <<>> /\ old_config # new_config
                    THEN [noted EXCEPT !.notified = _notify_changes(hc._callbacks)]
                    ELSE noted]

\* _check_for_updates, lines 119-138
_check_for_updates(hc, t) ==
    IF ~hc.auto_reload THEN hc
    ELSE IF t - hc._last_check < check_interval THEN hc
    ELSE LET h1 == [hc EXCEPT !._last_check = t]
             m0 == IF h1.env_file.exists THEN h1.env_mtime ELSE 0
             current_mtime == IF h1.json_path /\ h1.json_file.exists
                              THEN Max(m0, h1.json_mtime) ELSE m0
         IN IF current_mtime > h1._last_modified
            THEN _load(h1)
            ELSE h1

\* get with cast float, lines 145-167, as get_float calls it
hot_get(hc, key, default, t) ==
    LET h1 == _check_for_updates(hc, t)
        raised == h1.loads > hc.loads /\ h1.last_load.raised
        value == IF key \in DOMAIN h1._config THEN to_float(h1._config[key])
                 ELSE default
    IN [h1 EXCEPT
           !.calls = @ + 1,
           !.last_get = [happened |-> TRUE, key |-> key, default |-> default,
                         raised |-> raised,
                         result |-> IF raised \/ value = NotANumber THEN default
                                    ELSE value,
                         after |-> h1.last_load]]

\* a write of the .env file, by whoever edits it
HotWriteEnv ==
    /\ hot_config.writes < MaxConfigWrites
    /\ \E f \in EnvFiles :
           /\ f # hot_config.env_file
           /\ hot_config' = [hot_config EXCEPT
                  !.env_file = f,
                  !.env_mtime = IF f.exists THEN hot_config.writes + 1 ELSE @,
                  !.writes = @ + 1]
    /\ UNCHANGED <<coreVars, mmVars, earlyVars, price_mon, basis, aggregator, unified,
                   processor, pool, tailVars>>

\* a write of the JSON file
HotWriteJson ==
    /\ hot_config.json_path
    /\ hot_config.writes < MaxConfigWrites
    /\ \E f \in JsonFiles :
           /\ f # hot_config.json_file
           /\ hot_config' = [hot_config EXCEPT
                  !.json_file = f,
                  !.json_mtime = IF f.exists THEN hot_config.writes + 1 ELSE @,
                  !.writes = @ + 1]
    /\ UNCHANGED <<coreVars, mmVars, earlyVars, price_mon, basis, aggregator, unified,
                   processor, pool, tailVars>>

\* on_change, lines 181-183
on_change ==
    /\ Len(hot_config._callbacks) < Len(CallbackNames)
    /\ hot_config' = [hot_config EXCEPT
           !._callbacks = Append(@, CallbackNames[Len(@) + 1])]
    /\ UNCHANGED <<coreVars, mmVars, earlyVars, price_mon, basis, aggregator, unified,
                   processor, pool, tailVars>>

\* _signal_handler, lines 77-80, and reload, lines 140-143
_signal_handler ==
    /\ hot_config.calls < MaxHotCalls
    /\ hot_config' = [_load(hot_config) EXCEPT !.calls = @ + 1]
    /\ UNCHANGED <<coreVars, mmVars, earlyVars, price_mon, basis, aggregator, unified,
                   processor, pool, tailVars>>

HotGet ==
    /\ hot_config.calls < MaxHotCalls
    /\ \E key \in ConfigKeys, default \in GetDefaults :
           hot_config' = hot_get(hot_config, key, default, now)
    /\ UNCHANGED <<coreVars, mmVars, earlyVars, price_mon, basis, aggregator, unified,
                   processor, pool, tailVars>>

HotClock ==
    /\ advances < MaxHotAdvances
    /\ now' = now + HotStepSeconds
    /\ advances' = advances + 1
    /\ UNCHANGED <<script, wbiVars, gateVars, mmVars, extVars>>

\* __init__, lines 44-66: the first _load finds _config empty and no callback
HotConfig(env_file, json_path, json_file, auto_reload) ==
    [_load([env_file |-> env_file, env_mtime |-> IF env_file.exists THEN 1 ELSE 0,
            json_path |-> json_path, json_file |-> json_file,
            json_mtime |-> IF json_file.exists THEN 1 ELSE 0,
            auto_reload |-> auto_reload,
            _config |-> <<>>, _last_modified |-> 0, _callbacks |-> <<>>,
            _last_check |-> 0, writes |-> 1, calls |-> 0, loads |-> 0,
            last_load |-> NoLoad, last_get |-> NoGet])
     EXCEPT !.last_load = NoLoad, !.loads = 0]

InitHotConfig ==
    hot_config = HotConfig([exists |-> TRUE, parseable |-> TRUE,
                            data |-> [k \in ConfigKeys |-> "0.5"]],
                           FALSE, MissingFile, TRUE)

\* any files the constructor can load: an unparseable JSON file fails __init__
InitHotConfigs ==
    hot_config \in {HotConfig(e, FALSE, MissingFile, TRUE) : e \in EnvFiles} \cup
                   {HotConfig(e, TRUE, j, TRUE) :
                        e \in EnvFiles, j \in {f \in JsonFiles : f.parseable}}

(***************************************************************************)
(* Part XV: scripts/run_binance_monitor.py, BinanceMultiConnectionMonitor  *)
(* .run from the symbol lists to the connection tasks.  A symbol is its    *)
(* position in its market's list.  MAX_SYMBOLS_PER_CONNECTION is 30 in the *)
(* source and MAX_CONNECTIONS_PER_IP 50; they are scaled to 2 and 3.  For  *)
(* every count within the bounds int(ideal * ratio) of lines 767-768       *)
(* equals the exact quotient rounded down.                                 *)
(***************************************************************************)
MAX_SYMBOLS_PER_CONNECTION == 2
MAX_CONNECTIONS_PER_IP == 3
SymbolCounts == 0..MaxMarketSymbols
ProxyCounts == 1..MaxProxies
Markets == {"spot", "futures"}

\* lines 753-786: connections and symbols per connection of the two markets
ConnectionPlan(spot_len, futures_len, proxy_count, monitor_spot, monitor_futures) ==
    LET max_total_connections == proxy_count * MAX_CONNECTIONS_PER_IP
        ideal_spot_connections ==
            IF monitor_spot THEN CeilDiv(spot_len, MAX_SYMBOLS_PER_CONNECTION) ELSE 0
        ideal_futures_connections ==
            IF monitor_futures THEN CeilDiv(futures_len, MAX_SYMBOLS_PER_CONNECTION) ELSE 0
        ideal_total == ideal_spot_connections + ideal_futures_connections
        spot_scaled == (ideal_spot_connections * max_total_connections) \div ideal_total
        futures_scaled == (ideal_futures_connections * max_total_connections) \div ideal_total
        spot_connections == IF monitor_spot THEN Max(1, spot_scaled) ELSE 0
        futures_connections == IF monitor_futures THEN Max(1, futures_scaled) ELSE 0
    IN IF ideal_total > max_total_connections
       THEN [scaled |-> TRUE,
             max_total_connections |-> max_total_connections,
             spot_connections |-> spot_connections,
             futures_connections |-> futures_connections,
             symbols_per_conn_spot |->
                 IF spot_connections # 0 THEN CeilDiv(spot_len, spot_connections) ELSE 0,
             symbols_per_conn_futures |->
                 IF futures_connections # 0
                 THEN CeilDiv(futures_len, futures_connections) ELSE 0]
       ELSE [scaled |-> FALSE,
             max_total_connections |-> max_total_connections,
             spot_connections |-> ideal_spot_connections,
             futures_connections |-> ideal_futures_connections,
             symbols_per_conn_spot |-> MAX_SYMBOLS_PER_CONNECTION,
             symbols_per_conn_futures |-> MAX_SYMBOLS_PER_CONNECTION]

\* symbols[start_idx:end_idx] of a list of n symbols, lines 838-840
Batch(i, symbols_per_conn, n) ==
    LET start_idx == i * symbols_per_conn
        end_idx == Min(start_idx + symbols_per_conn, n)
    IN {k \in 0..(n - 1) : start_idx <= k /\ k < end_idx}

NoPlan == [scaled |-> FALSE, max_total_connections |-> 0, spot_connections |-> 0,
           futures_connections |-> 0, symbols_per_conn_spot |-> 0,
           symbols_per_conn_futures |-> 0]

Pool(spot_len, futures_len, proxy_count, monitor_spot, monitor_futures) ==
    [spot_len |-> spot_len, futures_len |-> futures_len, proxy_count |-> proxy_count,
     monitor_spot |-> monitor_spot, monitor_futures |-> monitor_futures,
     pc |-> "start", plan |-> NoPlan, tasks |-> <<>>, connections |-> 0]

\* run, lines 738-786: the early return without symbols, then the plan
run_plan ==
    /\ pool.pc = "start"
    /\ pool' = IF pool.spot_len = 0 /\ pool.futures_len = 0
               THEN [pool EXCEPT !.pc = "returned"]
               ELSE [pool EXCEPT
                        !.pc = "spot",
                        !.plan = ConnectionPlan(pool.spot_len, pool.futures_len,
                                                pool.proxy_count, pool.monitor_spot,
                                                pool.monitor_futures)]
    /\ UNCHANGED <<coreVars, mmVars, earlyVars, price_mon, basis, aggregator, unified,
                   processor, hot_config, tailVars>>

\* the tasks of one market so far
TasksOf(market) == {i \in 1..Len(pool.tasks) : pool.tasks[i].market = market}

\* one round of the loop of lines 836-846, up to its sleep
run_connect_spot ==
    /\ pool.pc = "spot"
    /\ LET i == Cardinality(TasksOf("spot"))
       IN IF pool.monitor_spot /\ i < pool.plan.spot_connections
          THEN pool' = [pool EXCEPT
                   !.tasks = Append(@, [batch_symbols |->
                                            Batch(i, pool.plan.symbols_per_conn_spot,
                                                  pool.spot_len),
                                        batch_id |-> Len(@) + 1, market |-> "spot"]),
                   !.connections = @ + 1]
          ELSE pool' = [pool EXCEPT !.pc = "futures"]
    /\ UNCHANGED <<coreVars, mmVars, earlyVars, price_mon, basis, aggregator, unified,
                   processor, hot_config, tailVars>>

\* one round of the loop of lines 849-859, up to its sleep
run_connect_futures ==
    /\ pool.pc = "futures"
    /\ LET i == Cardinality(TasksOf("futures"))
       IN IF pool.monitor_futures /\ i < pool.plan.futures_connections
          THEN pool' = [pool EXCEPT
                   !.tasks = Append(@, [batch_symbols |->
                                            Batch(i, pool.plan.symbols_per_conn_futures,
                                                  pool.futures_len),
                                        batch_id |-> Len(@) + 1, market |-> "futures"]),
                   !.connections = @ + 1]
          ELSE pool' = [pool EXCEPT !.pc = "started"]
    /\ UNCHANGED <<coreVars, mmVars, earlyVars, price_mon, basis, aggregator, unified,
                   processor, hot_config, tailVars>>

InitPool == pool = Pool(3, 3, 1, TRUE, TRUE)

\* any symbol lists, proxies and market switches
InitPools ==
    pool \in {Pool(s, f, p, ms, mf) :
                  s \in SymbolCounts, f \in SymbolCounts, p \in ProxyCounts,
                  ms \in BOOLEAN, mf \in BOOLEAN}

(***************************************************************************)
(* Part XVI: connectors/binance/auth.py, SymbolConverter.  A string is the *)
(* sequence of its characters.  Every symbol drawn is in upper case, on    *)
(* which str.upper changes nothing.                                        *)
(***************************************************************************)
Dash == <<"-">>
USDT == <<"U", "S", "D", "T">>
USDC == <<"U", "S", "D", "C">>
BUSD == <<"B", "U", "S", "D">>
BTC == <<"B", "T", "C">>
ETH == <<"E", "T", "H">>
BNB == <<"B", "N", "B">>
TRY == <<"T", "R", "Y">>
\* QUOTE_ASSETS, line 218, in its order
QUOTE_ASSETS == <<USDT, USDC, BUSD, BTC, ETH, BNB>>
\* the bases and quotes of the venue's symbols that are drawn
BaseAssets == {ETH, BTC, BNB, <<"S", "O", "L">>, <<"X", "R", "P">>,
               <<"D", "O", "G", "E">>, <<"W", "B", "E", "T", "H">>}
QuoteAssets == {USDT, USDC, BUSD, BTC, ETH, BNB, TRY}
VenuePairs == {<<b, q>> \in BaseAssets \X QuoteAssets : b # q}

\* str.endswith
EndsWith(s, suffix) ==
    /\ Len(s) >= Len(suffix)
    /\ SubSeq(s, Len(s) - Len(suffix) + 1, Len(s)) = suffix
\* str.startswith
StartsWith(s, prefix) ==
    /\ Len(s) >= Len(prefix)
    /\ SubSeq(s, 1, Len(prefix)) = prefix
\* old in s
Contains(s, old) ==
    \E i \in 1..Len(s) : StartsWith(SubSeq(s, i, Len(s)), old)
\* str.replace(old, new): every occurrence, left to right (old is not empty)
RECURSIVE Replace(_, _, _)
Replace(s, old, new) ==
    IF s = <<>> THEN <<>>
    ELSE IF StartsWith(s, old)
         THEN new \o Replace(SubSeq(s, Len(old) + 1, Len(s)), old, new)
         ELSE <<Head(s)>> \o Replace(Tail(s), old, new)

\* from_binance that always takes the last four characters as the quote
from_binance_last4(binance_symbol) ==
    SubSeq(binance_symbol, 1, Len(binance_symbol) - 4) \o Dash
        \o SubSeq(binance_symbol, Len(binance_symbol) - 3, Len(binance_symbol))

\* to_binance with auto_convert_stable at its default True, lines 228-247
to_binance(symbol) ==
    LET converted == IF Contains(symbol, Dash \o USDC)
                     THEN Replace(symbol, Dash \o USDC, Dash \o USDT)
                     ELSE symbol
    IN Replace(converted, Dash, <<>>)

\* from_binance, lines 278-295: the first quote of QUOTE_ASSETS the symbol
\* ends with, else its last four characters
from_binance(binance_symbol) ==
    LET matches == {i \in 1..Len(QUOTE_ASSETS) : EndsWith(binance_symbol, QUOTE_ASSETS[i])}
    IN IF matches # {}
       THEN LET quote == QUOTE_ASSETS[CHOOSE i \in matches : \A j \in matches : i <= j]
                base == SubSeq(binance_symbol, 1, Len(binance_symbol) - Len(quote))
            IN base \o Dash \o quote
       ELSE SubSeq(binance_symbol, 1, Len(binance_symbol) - 4) \o Dash
                \o SubSeq(binance_symbol, Len(binance_symbol) - 3, Len(binance_symbol))

\* a symbol of the venue in one representation, before any conversion
Conversion(base, quote, wire) ==
    [base |-> base, quote |-> quote, wire |-> wire,
     symbol |-> IF wire THEN base \o quote ELSE base \o Dash \o quote,
     there |-> <<>>, back |-> <<>>, pc |-> "start"]

\* the conversion to the other representation
ConvertThere ==
    /\ converter.pc = "start"
    /\ converter' = [converter EXCEPT
           !.there = IF converter.wire THEN from_binance(converter.symbol)
                     ELSE to_binance(converter.symbol),
           !.pc = "there"]
    /\ UNCHANGED <<coreVars, mmVars, earlyVars, price_mon, basis, aggregator, unified,
                   processor, hot_config, pool, engine, cfg_lock>>

\* the conversion back
ConvertBack ==
    /\ converter.pc = "there"
    /\ converter' = [converter EXCEPT
           !.back = IF converter.wire THEN to_binance(converter.there)
                    ELSE from_binance(converter.there),
           !.pc = "back"]
    /\ UNCHANGED <<coreVars, mmVars, earlyVars, price_mon, basis, aggregator, unified,
                   processor, hot_config, pool, engine, cfg_lock>>

InitConverter == converter = Conversion(ETH, USDT, FALSE)

\* any symbol of the venue, in either representation
InitConverters ==
    converter \in {Conversion(p[1], p[2], wire) : p \in VenuePairs, wire \in BOOLEAN}

(***************************************************************************)
(* Part XVII: engine/execution_engine.py and risk/manager.py.  One         *)
(* ExecutionEngine with a RiskManager, an event bus that has a subscriber  *)
(* to the order events (so that awaiting a publication yields), its worker *)
(* coroutines, one caller of cancel at a time, and the exchange behind the *)
(* connector.  One symbol is traded; sizes, positions, fees and PnL are    *)
(* integers.  The limits of RiskConfig are scaled: max_position_size and   *)
(* max_single_order_size to 2, max_daily_loss to 1; max_retries of a task  *)
(* from 3 to 1, _task_ttl from 3600 s to one step of the clock.  The       *)
(* priority queue holds tasks of one priority and is taken in order.       *)
(***************************************************************************)
max_position_size == 2
max_single_order_size == 2
max_daily_loss == 1
task_max_retries == 1
_task_ttl == 1
EngineStepSeconds == 1
TaskIds == 1..MaxEngineTasks
Sides == {"BUY", "SELL"}
OrderSizes == {2, 3}
PnlUpdates == {-1, 1}
Fees == {0, 1}
FinalStates == {"filled", "failed", "cancelled", "timeout"}
\* no order id yet
NoOrder == 0

\* what a create_order call can come to: a result with success, a result
\* without, and a retryable exception raised after or before the exchange took
\* the order
CreateOutcomes == {"ok", "fail", "lost_reply", "refused"}

\* the breaker test that trusts the loss of the moment, not the latch
BreakerBlocks_pnl(risk) == risk._daily_realized_pnl <= -max_daily_loss

\* check_order, line 65: the latch alone decides
BreakerBlocks(risk) == risk._circuit_breaker_active

\* check_order, lines 60-101: the outcome and the manager afterwards
check_order(risk, side, size) ==
    LET current_pos == risk._positions
        projected_pos == IF side = "BUY" THEN current_pos + size ELSE current_pos - size
    IN IF BreakerBlocks(risk)
       THEN [outcome |-> "CircuitBreakerTrippedError", risk |-> risk]
       ELSE IF risk._daily_realized_pnl <= -max_daily_loss
       THEN [outcome |-> "CircuitBreakerTrippedError",
             risk |-> [risk EXCEPT !._circuit_breaker_active = TRUE]]
       ELSE IF size > max_single_order_size
       THEN [outcome |-> "RiskLimitExceededError", risk |-> risk]
       ELSE IF Abs(projected_pos) > max_position_size
       THEN [outcome |-> "RiskLimitExceededError", risk |-> risk]
       ELSE [outcome |-> "passed", risk |-> risk]

\* on_fill with _update_pnl_state, lines 103-164
on_fill(risk, side, qty, fee) ==
    LET pnl == risk._daily_realized_pnl - fee
    IN [risk EXCEPT
           !._positions = IF side = "BUY" THEN @ + qty ELSE @ - qty,
           !._daily_realized_pnl = pnl,
           !._circuit_breaker_active = IF pnl <= -max_daily_loss THEN TRUE ELSE @]

\* update_pnl, lines 166-172
update_pnl(risk, realized_pnl) ==
    LET pnl == risk._daily_realized_pnl + realized_pnl
    IN [risk EXCEPT
           !._daily_realized_pnl = pnl,
           !._circuit_breaker_active = IF pnl <= -max_daily_loss THEN TRUE ELSE @]

\* reset_daily_stats, lines 182-185
reset_daily_stats(risk) ==
    [risk EXCEPT !._daily_realized_pnl = 0, !._circuit_breaker_active = FALSE]

NoTask == [state |-> "none", side |-> "BUY", size |-> 0, order_id |-> NoOrder,
           created_at |-> 0]
NoCheck == [happened |-> FALSE, via |-> "", tripped_before |-> FALSE,
            pnl_before |-> 0, reducing |-> FALSE, outcome |-> ""]

\* the record of a check_order call for the history
NoteCheck(via, risk, side, checked) ==
    [happened |-> TRUE, via |-> via, tripped_before |-> risk._circuit_breaker_active,
     pnl_before |-> risk._daily_realized_pnl,
     reducing |-> \/ risk._positions > 0 /\ side = "SELL"
                  \/ risk._positions < 0 /\ side = "BUY",
     outcome |-> checked.outcome]

engineOthers == <<coreVars, mmVars, earlyVars, price_mon, basis, aggregator, unified,
                  processor, hot_config, pool, converter, cfg_lock>>

\* RiskManager.check_order called on its own
RiskCheckOrder ==
    /\ \E side \in Sides, size \in OrderSizes :
           LET checked == check_order(engine.risk, side, size)
           IN engine' = [engine EXCEPT
                  !.risk = checked.risk,
                  !.last_check = NoteCheck("check_order", engine.risk, side, checked)]
    /\ UNCHANGED engineOthers

\* submit, lines 204-252: a rejected order raises out of submit before any task
\* exists
submit ==
    /\ \E side \in Sides, size \in OrderSizes :
           LET checked == check_order(engine.risk, side, size)
               id == engine.submitted + 1
               noted == [engine EXCEPT
                            !.risk = checked.risk,
                            !.last_check = NoteCheck("submit", engine.risk, side, checked)]
           IN IF checked.outcome # "passed"
              THEN engine' = noted
              ELSE /\ engine.submitted < MaxEngineTasks
                   /\ engine' = [noted EXCEPT
                          !.submitted = id,
                          !.tasks[id] = [state |-> "pending", side |-> side,
                                         size |-> size, order_id |-> NoOrder,
                                         created_at |-> now],
                          !._tasks = @ \cup {id},
                          !._queue = Append(@, id)]
    /\ UNCHANGED engineOthers

\* RiskManager.update_pnl, called by the accounting side
RiskUpdatePnl ==
    /\ engine.pnl_updates < MaxPnlUpdates
    /\ \E realized_pnl \in PnlUpdates :
           engine' = [engine EXCEPT
               !.risk = update_pnl(@, realized_pnl),
               !.pnl_updates = @ + 1]
    /\ UNCHANGED engineOthers

\* RiskManager.reset_daily_stats, called at the start of a day
RiskReset ==
    /\ engine.resets < MaxRiskResets
    /\ engine' = [engine EXCEPT
           !.risk = reset_daily_stats(@),
           !.resets = @ + 1,
           !.last_check = NoCheck]
    /\ UNCHANGED engineOthers

\* the finally clause of _worker, lines 341-344
Finish(e, id) ==
    [e EXCEPT
        !._pending = @ \ {id},
        !._completed = @ \cup {id},
        !.worker = [pc |-> "get", task |-> 0, attempt |-> 0]]

\* _worker, lines 319-340, from the queue to the first await of
\* _execute_order, where create_order is called: a cancelled task is dropped,
\* any other is taken up.  sent_while_tripped notes a create_order call made
\* with the breaker active.
worker_get ==
    /\ engine.worker.pc = "get"
    /\ engine._queue # <<>>
    /\ LET id == Head(engine._queue)
           e1 == [engine EXCEPT !._queue = Tail(@)]
       IN engine' = IF engine.tasks[id].state = "cancelled"
                    THEN e1
                    ELSE [e1 EXCEPT
                             !._pending = @ \cup {id},
                             !.tasks[id].state = "submitting",
                             !.hist.sent_while_tripped =
                                 @ \/ engine.risk._circuit_breaker_active,
                             !.worker = [pc |-> "create", task |-> id, attempt |-> 0]]
    /\ UNCHANGED engineOthers

\* _execute_order, lines 360-391 and 416-430, with retry_async, lines 88-113:
\* one create_order call comes back
create_order_returns ==
    /\ engine.worker.pc = "create"
    /\ \E outcome \in CreateOutcomes :
           LET id == engine.worker.task
               accepted == outcome \in {"ok", "lost_reply"}
               order_id == Len(engine.exchange) + 1
               e1 == [engine EXCEPT
                         !.exchange = IF accepted
                                      THEN Append(@, [task |-> id, status |-> "open"])
                                      ELSE @]
           IN /\ accepted => Len(engine.exchange) < MaxExchangeOrders
              /\ engine' =
                   CASE outcome = "ok" ->
                          [e1 EXCEPT
                              !.tasks[id].order_id = order_id,
                              !.tasks[id].state = "submitted",
                              !._exchange_order_map = DictPut(@, order_id, id),
                              !.worker.pc = "created"]
                     [] outcome = "fail" ->
                          Finish([e1 EXCEPT !.tasks[id].state = "failed"], id)
                     [] OTHER ->
                          IF engine.worker.attempt >= task_max_retries
                          THEN Finish([e1 EXCEPT !.tasks[id].state = "failed"], id)
                          ELSE [e1 EXCEPT
                                   !.worker.attempt = @ + 1,
                                   !.hist.sent_while_tripped =
                                       @ \/ engine.risk._circuit_breaker_active]
    /\ UNCHANGED engineOthers

\* _execute_order, lines 393-401, after the publication of ORDER_CREATED: with
\* the account stream the task is left as it is, without it the task is taken
\* as filled
order_created_published ==
    /\ engine.worker.pc = "created"
    /\ LET id == engine.worker.task
       IN engine' = IF engine.account_ws
                    THEN Finish(engine, id)
                    ELSE [engine EXCEPT
                             !.tasks[id].state = "filled",
                             !.hist.filled_after_cancel =
                                 @ \/ id \in engine.cancel_true,
                             !.worker.pc = "filled"]
    /\ UNCHANGED engineOthers

\* _execute_order, lines 403-437, after the publication of ORDER_FILLED
order_filled_published ==
    /\ engine.worker.pc = "filled"
    /\ \E fee \in Fees :
           LET id == engine.worker.task
               task == engine.tasks[id]
           IN engine' = Finish([engine EXCEPT
                  !.risk = on_fill(@, task.side, task.size, fee),
                  !.hist.position_after_cancel = @ \/ id \in engine.cancel_true], id)
    /\ UNCHANGED engineOthers

\* the exchange fills an open order and reports it on the account stream
ExchangeFills ==
    /\ engine.account_ws
    /\ \E o \in 1..Len(engine.exchange) :
           /\ engine.exchange[o].status = "open"
           /\ engine' = [engine EXCEPT
                  !.exchange[o].status = "filled",
                  !.ws_fills = @ \cup {o}]
    /\ UNCHANGED engineOthers

\* _on_ws_fill, lines 549-595
_on_ws_fill ==
    /\ \E o \in engine.ws_fills, fee \in Fees :
           LET e1 == [engine EXCEPT !.ws_fills = @ \ {o}]
               known == o \in DOMAIN engine._exchange_order_map
               id == engine._exchange_order_map[o]
           IN engine' =
                  IF ~known THEN e1
                  ELSE IF id \notin engine._tasks THEN e1
                  ELSE [e1 EXCEPT
                           !.tasks[id].state = "filled",
                           !.risk = on_fill(@, engine.tasks[id].side,
                                            engine.tasks[id].size, fee),
                           !.hist.filled_after_cancel = @ \/ id \in engine.cancel_true,
                           !.hist.position_after_cancel = @ \/ id \in engine.cancel_true]
    /\ UNCHANGED engineOthers

\* cancel, lines 254-278, up to its return or to the await of
\* connector.cancel_order, which the exchange grants for an open order
cancel ==
    /\ engine.canceller.pc = "idle"
    /\ engine.cancels < MaxCancels
    /\ \E id \in engine._tasks, granted \in BOOLEAN :
           LET task == engine.tasks[id]
               e1 == [engine EXCEPT !.cancels = @ + 1]
           IN engine' =
                  IF task.state = "pending"
                  THEN [e1 EXCEPT !.tasks[id].state = "cancelled",
                                  !.cancel_true = @ \cup {id}]
                  ELSE IF task.state \in {"submitting", "submitted"}
                          /\ task.order_id # NoOrder
                  THEN LET success == granted
                                      /\ engine.exchange[task.order_id].status = "open"
                       IN [e1 EXCEPT
                              !.exchange[task.order_id].status =
                                  IF success THEN "cancelled" ELSE @,
                              !.canceller = [pc |-> "awaiting", task |-> id,
                                             success |-> success]]
                  ELSE e1
    /\ UNCHANGED engineOthers

\* cancel, lines 279-282: connector.cancel_order came back
cancel_order_returns ==
    /\ engine.canceller.pc = "awaiting"
    /\ LET id == engine.canceller.task
           e1 == [engine EXCEPT
                     !.canceller = [pc |-> "idle", task |-> 0, success |-> FALSE]]
       IN engine' = IF engine.canceller.success
                    THEN [e1 EXCEPT !.tasks[id].state = "cancelled",
                                    !.cancel_true = @ \cup {id}]
                    ELSE e1
    /\ UNCHANGED engineOthers

\* _cleanup_expired_tasks, lines 478-507, as _cleanup_loop calls it; retained
\* notes the finished tasks past their TTL that a table still holds after it
_cleanup_expired_tasks ==
    /\ engine.cleanups < MaxCleanups
    /\ LET to_remove == {id \in engine._completed :
                             now - engine.tasks[id].created_at > _task_ttl}
           orders == {engine.tasks[id].order_id : id \in to_remove}
           map == [o \in DOMAIN engine._exchange_order_map \ orders |->
                       engine._exchange_order_map[o]]
           e1 == [engine EXCEPT
                     !._completed = @ \ to_remove,
                     !._tasks = @ \ to_remove,
                     !._exchange_order_map = map,
                     !.cleanups = @ + 1]
       IN engine' = [e1 EXCEPT
              !.retained =
                  {id \in TaskIds :
                       /\ e1.tasks[id].state \in FinalStates
                       /\ now - e1.tasks[id].created_at > _task_ttl
                       /\ \/ id \in e1._tasks
                          \/ id \in e1._completed
                          \/ e1.tasks[id].order_id \in DOMAIN e1._exchange_order_map}]
    /\ UNCHANGED engineOthers

EngineClock ==
    /\ advances < MaxEngineAdvances
    /\ now' = now + EngineStepSeconds
    /\ advances' = advances + 1
    /\ UNCHANGED <<script, wbiVars, gateVars, mmVars, extVars>>

\* __init__ of the two classes, execution_engine.py lines 102-143 and
\* manager.py lines 47-58, and start
ExecutionEngine(account_ws) ==
    [account_ws |-> account_ws,
     tasks |-> [id \in TaskIds |-> NoTask],
     _tasks |-> {}, _pending |-> {}, _completed |-> {},
     _exchange_order_map |-> <<>>,
     _queue |-> <<>>,
     worker |-> [pc |-> "get", task |-> 0, attempt |-> 0],
     canceller |-> [pc |-> "idle", task |-> 0, success |-> FALSE],
     risk |-> [_positions |-> 0, _daily_realized_pnl |-> 0,
               _circuit_breaker_active |-> FALSE],
     exchange |-> <<>>, ws_fills |-> {},
     submitted |-> 0, pnl_updates |-> 0, resets |-> 0, cancels |-> 0, cleanups |-> 0,
     last_check |-> NoCheck, cancel_true |-> {}, retained |-> {},
     hist |-> [sent_while_tripped |-> FALSE, filled_after_cancel |-> FALSE,
               position_after_cancel |-> FALSE]]

InitEngine == engine = ExecutionEngine(FALSE)

\* with or without a running account stream
InitEngines == engine \in {ExecutionEngine(ws) : ws \in BOOLEAN}

(***************************************************************************)
(* Part XVIII: monitoring/hot_config.py, self._lock and the thread that    *)
(* uses the configuration.  _lock is a threading.Lock: it is not           *)
(* re-entrant, an acquire by the thread that holds it waits like any       *)
(* other.  Signal handlers run in the main thread, between two bytecodes   *)
(* of whatever it is executing; cfg_lock.stack is that thread's call       *)
(* stack, the last frame the one that runs.                                *)
(***************************************************************************)
\* the callbacks on_change may register: one that reads the configuration
\* through a getter, one that only looks at the dict it is handed
READER == "reader"
PLAIN == "plain"
CallbackKinds == {READER, PLAIN}
\* the files against what was loaded last: unchanged, rewritten with the same
\* content (newer mtime only), or changed
SAME == "same"
TOUCHED == "touched"
CHANGED == "changed"

Frame(fn, pc) == [fn |-> fn, pc |-> pc, i |-> 1]

Top(l) == l.stack[Len(l.stack)]
SetTop(l, frame) == [l EXCEPT !.stack[Len(l.stack)] = frame]
Push(l, frame) == [l EXCEPT !.stack = Append(@, frame)]
Pop(l) == [l EXCEPT !.stack = SubSeq(@, 1, Len(@) - 1)]

Running(fn, pc) ==
    /\ cfg_lock.stack # <<>>
    /\ Top(cfg_lock).fn = fn
    /\ Top(cfg_lock).pc = pc

lockOthers == <<coreVars, mmVars, earlyVars, price_mon, basis, aggregator, unified,
                processor, hot_config, pool, converter, engine>>

\* the files are written
CfgWrite ==
    /\ cfg_lock.writes < MaxLockWrites
    /\ \E f \in {TOUCHED, CHANGED} :
          cfg_lock' = [cfg_lock EXCEPT !.file = IF @ = CHANGED THEN CHANGED ELSE f,
                                       !.writes = @ + 1]
    /\ UNCHANGED lockOthers

\* on_change(callback), lines 181-183, called by the program between two calls
CfgOnChange ==
    /\ cfg_lock.stack = <<>>
    /\ Len(cfg_lock._callbacks) < MaxLockCallbacks
    /\ \E kind \in CallbackKinds :
          cfg_lock' = [cfg_lock EXCEPT !._callbacks = Append(@, kind)]
    /\ UNCHANGED lockOthers

\* the program calls get (or get_float, get_int, get_bool: lines 169-179)
CfgGet ==
    /\ cfg_lock.stack = <<>>
    /\ cfg_lock.calls < MaxLockCalls
    /\ cfg_lock' = [Push(cfg_lock, Frame("get", "check")) EXCEPT !.calls = @ + 1]
    /\ UNCHANGED lockOthers

\* get, line 154: _check_for_updates (lines 119-138) calls _load if the check is
\* due and a file is newer than the last load
CfgCheckForUpdates ==
    /\ Running("get", "check")
    /\ \E due \in BOOLEAN :
          LET next == SetTop(cfg_lock, Frame("get", "acquire"))
          IN cfg_lock' = IF due /\ cfg_lock.file # SAME
                         THEN Push(next, Frame("_load", "acquire"))
                         ELSE next
    /\ UNCHANGED lockOthers

\* `with self._lock` (lines 84 and 156): Lock.acquire returns once the lock is free
CfgAcquire ==
    /\ cfg_lock.stack # <<>>
    /\ Top(cfg_lock).pc = "acquire"
    /\ cfg_lock.holder = 0
    /\ cfg_lock' = [SetTop(cfg_lock, [Top(cfg_lock) EXCEPT !.pc = "held"])
                       EXCEPT !.holder = Len(cfg_lock.stack)]
    /\ UNCHANGED lockOthers

\* get, lines 156-167: the value is read, the lock released, get returns
CfgGetReturns ==
    /\ Running("get", "held")
    /\ cfg_lock' = [Pop(cfg_lock) EXCEPT !.holder = 0]
    /\ UNCHANGED lockOthers

\* _load, lines 85-104, with the lock held: the files are read into _config,
\* and a changed configuration is notified
CfgLoad ==
    /\ Running("_load", "held")
    /\ cfg_lock' = [SetTop(cfg_lock,
                           Frame("_load", IF cfg_lock.file = CHANGED THEN "notify"
                                          ELSE "release"))
                       EXCEPT !.file = SAME]
    /\ UNCHANGED lockOthers

\* _notify_changes, lines 185-192, called at line 104 inside `with self._lock`:
\* the next callback is called, or the loop is over
CfgNotify ==
    /\ Running("_load", "notify")
    /\ LET frame == Top(cfg_lock)
       IN cfg_lock' =
             IF frame.i > Len(cfg_lock._callbacks)
             THEN SetTop(cfg_lock, [frame EXCEPT !.pc = "release"])
             ELSE Push(SetTop(cfg_lock, [frame EXCEPT !.i = @ + 1]),
                       Frame("callback", cfg_lock._callbacks[frame.i]))
    /\ UNCHANGED lockOthers

\* a callback runs: the reader calls get, the other returns
CfgCallback ==
    /\ cfg_lock.stack # <<>>
    /\ Top(cfg_lock).fn = "callback"
    /\ cfg_lock' = CASE Top(cfg_lock).pc = READER ->
                            Push(SetTop(cfg_lock, Frame("callback", "done")),
                                 Frame("get", "check"))
                     [] OTHER -> Pop(cfg_lock)
    /\ UNCHANGED lockOthers

\* the end of `with self._lock` in _load: the lock is released, _load returns
CfgLoadReturns ==
    /\ Running("_load", "release")
    /\ cfg_lock' = [Pop(cfg_lock) EXCEPT !.holder = 0]
    /\ UNCHANGED lockOthers

\* SIGHUP is delivered: _signal_handler (lines 77-80) runs on top of whatever
\* the thread is doing and calls reload, which calls _load (lines 140-143)
CfgSignal ==
    /\ cfg_lock.signals < MaxLockSignals
    /\ cfg_lock' = [Push(Push(cfg_lock, Frame("_signal_handler", "done")),
                         Frame("_load", "acquire"))
                       EXCEPT !.signals = @ + 1]
    /\ UNCHANGED lockOthers

\* reload has returned: the handler returns to what it interrupted
CfgHandlerReturns ==
    /\ Running("_signal_handler", "done")
    /\ cfg_lock' = Pop(cfg_lock)
    /\ UNCHANGED lockOthers

\* a HotConfig after __init__ (lines 45-66): the first _load is done
HotConfigLock ==
    [holder |-> 0, stack |-> <<>>, _callbacks |-> <<>>, file |-> SAME,
     calls |-> 0, signals |-> 0, writes |-> 0]

InitCfgLock == cfg_lock = HotConfigLock
InitTail == InitConverter /\ InitEngine /\ InitCfgLock

InitLate ==
    /\ InitPriceMon /\ InitBasis /\ InitAggregator /\ InitUnified /\ InitProcessor
    /\ InitHotConfig /\ InitPool /\ InitTail

NoSignal == [symbol |-> -1,
             before |-> [alert_state |-> WARMUP, alert_direction |-> NoDir,
                         cooldown |-> FALSE],
             signal |-> _empty_signal(-1, SymbolState, "")]

InitClock ==
    /\ now = 0
    /\ advances = 0

InitWbi ==
    /\ wbi_states = <<>>
    /\ wbi_last_cleanup = 0
    /\ wbi_last = NoSignal
    /\ wbi_seen = [s \in Symbols |-> 0]
    /\ wbi_streak = [s \in Symbols |-> [dir |-> NoDir, n |-> 0]]
    /\ wbi_sig_time = [s \in Symbols |-> NoTime]
    /\ wbi_sig_gap = [s \in Symbols |-> NoTime]

InitExt == InitShard /\ InitConnGate /\ InitBucket /\ InitWhale /\ InitFilter /\ InitLate

Init == InitClock /\ InitWbi /\ InitGate /\ InitMm /\ InitExt /\ script = BINANCE_MONITOR

\* either monitor script may be the one that runs
InitScripts ==
    /\ InitClock /\ InitWbi /\ InitGate /\ InitMm /\ InitExt
    /\ script \in {BINANCE_MONITOR, MULTI_MARKET_MONITOR}

NextLock ==
    \/ CfgWrite \/ CfgOnChange \/ CfgGet \/ CfgCheckForUpdates \/ CfgAcquire
    \/ CfgGetReturns \/ CfgLoad \/ CfgNotify \/ CfgCallback \/ CfgLoadReturns
    \/ CfgSignal \/ CfgHandlerReturns

SpecLock == Init /\ [][NextLock]_vars

NextWbi == TickFocus \/ WbiClock

SpecWbi == Init /\ [][NextWbi]_vars

NextSweep == SweepTickFocus \/ TickFiller \/ SweepClock

SpecSweep == Init /\ [][NextSweep]_vars

NextGate ==
    \/ TradeEvent \/ DepthEvent \/ PostOver
    \/ MmUpdate \/ MmSendOver \/ MmReconnect
    \/ GateClock

SpecGate == InitScripts /\ [][NextGate]_vars

NextBurst == BurstTrade \/ BurstDepth \/ PostOver

SpecBurst == Init /\ [][NextBurst]_vars

NextQuiet == QuietUpdate \/ MmSendOver \/ MmReconnect \/ QuietClock

\* the multi-market monitor is the script that runs
InitMultiMarket ==
    /\ InitClock /\ InitWbi /\ InitGate /\ InitMm /\ InitExt
    /\ script = MULTI_MARKET_MONITOR

SpecQuiet == InitMultiMarket /\ [][NextQuiet]_vars

NextRate == GateCall \/ GateWake \/ RateClock

SpecRate == Init /\ [][NextRate]_vars

NextBucket == BucketAcquire \/ BucketLockAcquired \/ BucketSleepOver \/ BucketClock

SpecBucket == Init /\ [][NextBucket]_vars

NextPriceMon == PmUpdate \/ PmReset \/ PmClock

SpecPriceMon == Init /\ [][NextPriceMon]_vars

NextBasis == BasisUpdate \/ get_pending_alerts \/ BasisClock

SpecBasis == Init /\ [][NextBasis]_vars

NextAgg == AggAddAlert \/ AggFlushAll \/ AggClock

SpecAgg == Init /\ [][NextAgg]_vars

\* time passes; nothing in the aggregator runs on its own
SpecAggLive == Init /\ [][NextAgg]_vars /\ WF_vars(AggClock)

NextShutdown == UnifiedAlert \/ signal_handler \/ stop_cancels \/ main_returns

SpecShutdown == Init /\ [][NextShutdown]_vars

\* everything but the hot configuration and the pool, as constructed
InitOthers ==
    /\ InitClock /\ InitWbi /\ InitGate /\ InitMm /\ InitShard /\ InitConnGate
    /\ InitBucket /\ InitWhale /\ InitFilter
    /\ InitPriceMon /\ InitBasis /\ InitAggregator /\ InitUnified /\ InitProcessor
    /\ script = BINANCE_MONITOR

NextHot == HotWriteEnv \/ HotWriteJson \/ on_change \/ _signal_handler \/ HotGet
           \/ HotClock

InitAnyConfig == InitOthers /\ InitHotConfigs /\ InitPool /\ InitTail

SpecHot == InitAnyConfig /\ [][NextHot]_vars

\* orders against the risk limits: checks, PnL, the worker, no cancellation
NextRisk ==
    \/ RiskCheckOrder \/ submit \/ RiskUpdatePnl \/ RiskReset
    \/ worker_get \/ create_order_returns \/ order_created_published
    \/ order_filled_published

\* the life of tasks: the worker, the exchange, cancellation, cleanup, time
NextEngine ==
    \/ submit \/ worker_get \/ create_order_returns \/ order_created_published
    \/ order_filled_published \/ ExchangeFills \/ _on_ws_fill
    \/ cancel \/ cancel_order_returns \/ _cleanup_expired_tasks \/ EngineClock

InitAnyEngine ==
    /\ InitOthers /\ InitHotConfig /\ InitPool
    /\ InitConverter /\ InitEngines /\ InitCfgLock

SpecRisk == Init /\ [][NextRisk]_vars

SpecEngine == InitAnyEngine /\ [][NextEngine]_vars

NextConvert == ConvertThere \/ ConvertBack

InitAnySymbol ==
    /\ InitOthers /\ InitHotConfig /\ InitPool
    /\ InitConverters /\ InitEngine /\ InitCfgLock

SpecConvert == InitAnySymbol /\ [][NextConvert]_vars

NextPool == run_plan \/ run_connect_spot \/ run_connect_futures

InitAnyPool == InitOthers /\ InitHotConfig /\ InitPools /\ InitTail

SpecPool == InitAnyPool /\ [][NextPool]_vars

NextProc == ProcTrade \/ ProcDepth \/ ProcClock

SpecProc == Init /\ [][NextProc]_vars

NextFilter == FilterRecord \/ FilterThreshold \/ FilterClock

SpecFilter == Init /\ [][NextFilter]_vars

NextWhale == WhaleUpdatePrice \/ WhaleDetect \/ WhaleClock

\* the tracker has seen a quiet hour
InitQuietHour ==
    /\ InitClock /\ InitWbi /\ InitGate /\ InitMm /\ InitShard /\ InitConnGate
    /\ InitBucket /\ InitWhales /\ InitFilter /\ InitLate
    /\ script = BINANCE_MONITOR

SpecWhale == InitQuietHour /\ [][NextWhale]_vars

NextShard == ShardDial \/ ShardStreamEnds

\* any of the three shard loops may be the one that runs
InitAnyShard ==
    /\ InitClock /\ InitWbi /\ InitGate /\ InitMm /\ InitShards /\ InitConnGate
    /\ InitBucket /\ InitWhale /\ InitFilter /\ InitLate
    /\ script = IF shard.impl = MULTI_MARKET_MONITOR THEN MULTI_MARKET_MONITOR
                ELSE BINANCE_MONITOR

SpecShard == InitAnyShard /\ [][NextShard]_vars


(***************************************************************************)
(* Claims about the weighted book imbalance                                *)
(***************************************************************************)
\* the state machine ran on the last tick (the book was two-sided, uncrossed and
\* the warm-up over)
MachineTick ==
    /\ wbi_last.symbol \in Symbols
    /\ wbi_last.signal.trigger_reason.kind \notin {"no_data", "cross_market", "warmup"}

Opposite(d) == IF d = BUY_PRESSURE THEN SELL_PRESSURE ELSE BUY_PRESSURE

\* C6: none of the first warmup_ticks ticks after a symbol is first observed
\* returns a significant signal, whatever the book of the tick
C6_NoAlertInWarmup ==
    \A s \in Symbols :
        (wbi_last.symbol = s /\ wbi_seen[s] <= warmup_ticks)
            => ~wbi_last.signal.is_significant

\* the tenth tick of a symbol carries a book strong enough to trigger
C6_Witness ==
    /\ wbi_last.symbol = Focus
    /\ wbi_seen[Focus] = warmup_ticks
    /\ wbi_last.signal.trigger_reason.kind = "warmup"
    /\ Abs(wbi_last.signal.score) >= level_trigger

\* C7 without the run of ticks: a significant signal for d comes only from
\* Pending(d) on the tick its counter reaches confirm_ticks outside the cool-down,
\* and leaves Active(d); inside the cool-down the tick leaves Active(d) silently
C7_ConfirmStep ==
    \A s \in Symbols :
        wbi_last.symbol = s =>
            LET post == wbi_states[s]
                sig == wbi_last.signal
                confirmed == /\ MachineTick
                             /\ wbi_last.before.alert_state = PENDING
                             /\ post.pending_ticks >= confirm_ticks
            IN /\ sig.is_significant =>
                    /\ confirmed
                    /\ ~wbi_last.before.cooldown
                    /\ post.pending_direction = sig.direction
               /\ confirmed =>
                    /\ post.alert_state = ACTIVE
                    /\ post.alert_direction = post.pending_direction
                    /\ sig.is_significant = ~wbi_last.before.cooldown

\* C7: as C7_ConfirmStep, and the counter reached confirm_ticks through that many
\* consecutive ticks whose current direction is d
C7_ConfirmedByRun ==
    /\ C7_ConfirmStep
    /\ \A s \in Symbols :
          (wbi_last.symbol = s /\ wbi_last.signal.is_significant) =>
              /\ wbi_streak[s].dir = wbi_last.signal.direction
              /\ wbi_streak[s].n >= confirm_ticks

\* C9: from Active(d), a tick with delta against d of magnitude >= delta_trigger,
\* or score beyond level_trigger against d, leaves Pending(opposite of d, 1, flip)
\* with pre_flip_direction = d
C9_FlipEntersOpposite ==
    \A s \in Symbols :
        LET d == wbi_last.before.alert_direction
            sig == wbi_last.signal
            post == wbi_states[s]
        IN (/\ wbi_last.symbol = s
            /\ MachineTick
            /\ wbi_last.before.alert_state = ACTIVE
            /\ \/ d = BUY_PRESSURE /\ (sig.delta <= -delta_trigger \/ sig.score < -level_trigger)
               \/ d = SELL_PRESSURE /\ (sig.delta >= delta_trigger \/ sig.score > level_trigger))
           => /\ post.alert_state = PENDING
              /\ post.pre_flip_direction = d
              /\ post.pending_direction = Opposite(d)
              /\ post.pending_ticks = 1
              /\ post.pending_trigger.kind = "flip"

\* the tick of the scenario: Active(Buy), delta = -0.10, score = +0.40
C10_Tick ==
    /\ wbi_last.symbol = Focus
    /\ MachineTick
    /\ wbi_last.before.alert_state = ACTIVE
    /\ wbi_last.before.alert_direction = BUY_PRESSURE
    /\ 10 * wbi_last.signal.delta = -1 * ScoreScale
    /\ 10 * wbi_last.signal.score = 4 * ScoreScale

\* C10 as stated: the tick leaves the symbol in Active(Buy)
C10_RemainsActive ==
    C10_Tick => /\ wbi_states[Focus].alert_state = ACTIVE
                /\ wbi_states[Focus].alert_direction = BUY_PRESSURE

\* C10 amended: the tick is a decay reset, the symbol goes Inactive with its
\* direction, pending fields and pre-flip direction cleared
C10_DecayResets ==
    C10_Tick => /\ wbi_states[Focus].alert_state = INACTIVE
                /\ wbi_states[Focus].alert_direction = NoDir
                /\ wbi_states[Focus].pending_direction = NoDir
                /\ wbi_states[Focus].pending_ticks = 0
                /\ wbi_states[Focus].pre_flip_direction = NoDir
                /\ wbi_last.signal.state = INACTIVE

C10_Witness == C10_Tick /\ wbi_states[Focus].alert_state = INACTIVE

\* the symbol is in the Pending state that a flip out of Active entered
InFlipPending(state) ==
    /\ state.alert_state = PENDING
    /\ state.pending_trigger.kind = "flip"

\* the last tick took the symbol from Pending to Active
EnteredActive(s) ==
    /\ wbi_last.symbol = s
    /\ MachineTick
    /\ wbi_last.before.alert_state = PENDING
    /\ wbi_states[s].alert_state = ACTIVE

\* C39: pre_flip_direction is set only in the Pending state entered by a flip
\* out of Active; and an entry into Active is either the restoration of
\* Active(d) from the Pending state that the flip out of Active(d) entered
\* (the restoration leaves pending_trigger and pending_direction as the flip
\* set them), or comes with confirm_ticks consecutive ticks of its direction
C39_PreFlipOnlyInFlipPending ==
    \A s \in DOMAIN wbi_states :
        LET post == wbi_states[s]
        IN /\ post.pre_flip_direction # NoDir => InFlipPending(post)
           /\ EnteredActive(s) =>
                 \/ /\ wbi_streak[s].dir = post.alert_direction
                    /\ wbi_streak[s].n >= confirm_ticks
                 \/ /\ post.pending_trigger.kind = "flip"
                    /\ wbi_streak[s].n = 1

\* the running frame waits for _lock, which a frame below it holds: nothing
\* can release the lock before the running frame returns
BlockedOnOwnLock ==
    /\ cfg_lock.stack # <<>>
    /\ Top(cfg_lock).pc = "acquire"
    /\ cfg_lock.holder # 0

\* C40: a reload never deadlocks: the thread never waits for the configuration
\* lock while it holds it itself, neither in a change callback that reads the
\* configuration through a getter nor in a reload signal delivered while the
\* lock is held
C40_ReloadNeverBlocks == ~BlockedOnOwnLock

\* C11: a tick whose book has an empty side or has best_bid >= best_ask leaves
\* the symbol in CrossMarket and returns no significant signal
C11_BadBookEntersCross ==
    \A s \in Symbols :
        (/\ wbi_last.symbol = s
         /\ wbi_last.signal.trigger_reason.kind \in {"no_data", "cross_market"})
        => /\ wbi_states[s].alert_state = CROSS_MARKET
           /\ ~wbi_last.signal.is_significant


\* C8: any two significant signals of one symbol are at least cooldown_seconds
\* apart, also across a crossed book and across a sweep of the symbol's state
C8_AlertsCooldownApart ==
    \A s \in Symbols : wbi_sig_gap[s] = NoTime \/ wbi_sig_gap[s] >= cooldown_seconds

\* C28: a reload that loaded a configuration different from the one in force
\* before it called every callback registered at that time
C28_ChangeNotifiesAll ==
    LET l == hot_config.last_load
    IN (l.happened /\ ~l.raised /\ l.old # l.new) => l.notified = l.callbacks

\* the key's value in a configuration converts
Converts(config, key) == key \in DOMAIN config /\ to_float(config[key]) # NotANumber

\* C29: when the reload before a get failed (the file did not parse, or the
\* key's new value does not convert) and the key had a value that converts
\* before that reload, the get returns that earlier value
C29_FailedReloadKeepsPrior ==
    LET g == hot_config.last_get
        l == g.after
    IN (/\ g.happened /\ l.happened
        /\ Converts(l.old, g.key)
        /\ l.raised \/ (g.key \in DOMAIN l.new /\ ~Converts(l.new, g.key)))
       => ~g.raised /\ g.result = to_float(l.old[g.key])

\* the shards of a market, once every task is created
ShardsOf(market) == {pool.tasks[i].batch_symbols : i \in TasksOf(market)}
MarketLen(market) == IF market = "spot" THEN pool.spot_len ELSE pool.futures_len
Monitored(market) == IF market = "spot" THEN pool.monitor_spot ELSE pool.monitor_futures
\* every symbol of the market is in exactly one of its shards
ExactlyOneShard(market) ==
    \A k \in 0..(MarketLen(market) - 1) :
        Cardinality({i \in TasksOf(market) : k \in pool.tasks[i].batch_symbols}) = 1
NoEmptyShard(market) ==
    \A i \in TasksOf(market) : pool.tasks[i].batch_symbols # {}

\* C30, without scaling: a monitored market of S symbols gets ceil(S / K) shards,
\* every symbol in exactly one and none empty
ShardsPartition ==
    (pool.pc = "started" /\ ~pool.plan.scaled) =>
        \A market \in Markets :
            Monitored(market) =>
                /\ Cardinality(TasksOf(market)) =
                       CeilDiv(MarketLen(market), MAX_SYMBOLS_PER_CONNECTION)
                /\ ExactlyOneShard(market)
                /\ NoEmptyShard(market)

\* C30, scaled down: every symbol of a monitored market is in exactly one shard
ScaledStillPartition ==
    (pool.pc = "started" /\ pool.plan.scaled) =>
        \A market \in Markets : Monitored(market) => ExactlyOneShard(market)

\* C30, scaled down: the connections are within the budget
ScaledWithinBudget ==
    (pool.pc = "started" /\ pool.plan.scaled) =>
        pool.connections <= pool.plan.max_total_connections

\* C30: S symbols and cap K give ceil(S / K) shards that partition the symbols,
\* none empty; scaled down to the budget, every symbol is still in exactly one
\* shard and the connections do not exceed the budget
C30_ShardsPartitionWithinBudget ==
    ShardsPartition /\ ScaledStillPartition /\ ScaledWithinBudget

\* C31 as stated: a symbol of the venue converted to the other representation
\* and back is the symbol it started from
C31_RoundTrip ==
    converter.pc = "back" => converter.back = converter.symbol

\* C31, amended: the round trip returns the symbol when its quote is one of
\* QUOTE_ASSETS other than USDC; a symbol quoted in USDC comes back quoted in
\* USDT from either representation
C31_RoundTripListedQuotes ==
    converter.pc = "back" =>
        /\ (\E i \in 1..Len(QUOTE_ASSETS) : converter.quote = QUOTE_ASSETS[i])
               /\ converter.quote # USDC
           => converter.back = converter.symbol
        /\ converter.quote = USDC
           => converter.back = Conversion(converter.base, USDT, converter.wire).symbol

C31_Witness ==
    /\ converter.pc = "back"
    /\ converter.wire
    /\ converter.quote = BTC
    /\ converter.back = converter.symbol

\* C32: a check_order call made with the breaker tripped, on its own or inside
\* submit, raises CircuitBreakerTrippedError, whatever the order and the PnL
C32_BreakerRejectsAll ==
    (engine.last_check.happened /\ engine.last_check.tripped_before)
        => engine.last_check.outcome = "CircuitBreakerTrippedError"

\* a position-reducing order was rejected by submit with the breaker tripped
\* after the PnL had come back above the loss limit
C32_Witness ==
    /\ engine.last_check.happened
    /\ engine.last_check.via = "submit"
    /\ engine.last_check.tripped_before
    /\ engine.last_check.reducing
    /\ engine.last_check.outcome = "CircuitBreakerTrippedError"
    /\ engine.last_check.pnl_before > -max_daily_loss

\* C33: after a cleanup pass no table holds a finished task older than its TTL
C33_FinishedTasksRemoved == engine.retained = {}

\* C35: the net position of the symbol stays within max_position_size
C35_PositionWithinLimit == Abs(engine.risk._positions) <= max_position_size

\* C36: no create_order call is made while the breaker is active
C36_NothingSentWhileTripped == ~engine.hist.sent_while_tripped

\* C37: a task whose cancel returned True is not set to filled afterwards and
\* causes no position update afterwards
C37_CancelledStaysCancelled ==
    ~engine.hist.filled_after_cancel /\ ~engine.hist.position_after_cancel

C27_TrackedWithinCap ==
    wbi_last_cleanup > 0 => 10 * Cardinality(DOMAIN wbi_states) <= 11 * MAX_SYMBOLS

\* C14: no large-order alert and no pump/dump alert is raised at a time inside
\* the quiet period that a reconnect starts
C14_QuietPeriodSilent == mm_hist.quiet_alerts = 0

\* C15: an update handled after a reconnect's quiet period, the snapshot of the
\* new connection already in the book, that adds a wall at a price level the
\* book did not have raises an alert for that level
C15_FreshWallAlerts ==
    (/\ mm_hist.last_update.reconnected
     /\ mm_hist.last_update.warmed_up
     /\ ~mm_hist.last_update.quiet)
    => mm_hist.last_update.fresh_walls \subseteq mm_hist.last_update.alerted

(***************************************************************************)
(* Claims about the stream shards                                          *)
(***************************************************************************)
\* C12: a shard whose connection rounds keep failing makes at most
\* max_reconnect_attempts of them in a row, and after the last one it has
\* stopped with a fatal error raised to its caller
C12_GivesUpWithFatalError ==
    /\ shard_hist.failures <= max_reconnect_attempts
    /\ shard_hist.failures = max_reconnect_attempts => shard.pc = "fatal"

\* C13: the sleep before every reconnect, whatever ended the connection or the
\* attempt before it, lies in [1 s, 60 s]
C13_BackoffInRange ==
    \A d \in shard_hist.backoffs : 1 <= d /\ d <= max_reconnect_delay

\* C16: of the times at which callers of the gate went on to dial, at most
\* rate_limit_max lie in any window of rate_limit_window seconds
C16_AtMostCPerWindow ==
    LET admitted == conn_gate.admitted
    IN \A i \in 1..Len(admitted) :
          Cardinality({j \in 1..i : admitted[i] - admitted[j] < rate_limit_window})
              <= rate_limit_max

\* C21: any two price alerts of one direction are at least the cooldown apart,
\* resets of the monitor in between included
C21_PriceAlertsApart ==
    \A d \in Directions :
        price_mon.alerts[d].gap = NoTime \/ price_mon.alerts[d].gap >= price_cooldown_sec

\* C22: a basis alert is produced only with a fresh spot and a fresh perpetual
\* price, a basis of at least the threshold, and the cooldown elapsed since the
\* symbol's previous basis alert
C22_BasisAlertOnlyWhenDue ==
    basis.last.alerted =>
        /\ basis.last.spot_age # NoTime /\ basis.last.spot_age <= DEFAULT_STALE_SECONDS
        /\ basis.last.futures_age # NoTime
        /\ basis.last.futures_age <= DEFAULT_STALE_SECONDS
        /\ 100 * Abs(basis.last.futures_price - basis.last.spot_price)
               >= DEFAULT_ALERT_THRESHOLD * basis.last.spot_price
        /\ \/ basis.last.previous = NoTime
           \/ basis.last.t - basis.last.previous >= DEFAULT_COOLDOWN_SECONDS

\* a second alert for a symbol, raised over a price that is a minute old
C22_Witness ==
    /\ basis.last.alerted /\ basis.last.previous # NoTime
    /\ basis.last.spot_age = DEFAULT_STALE_SECONDS

\* the buckets whose content an add_alert changed or created
ChangedBuckets ==
    {k \in DOMAIN aggregator._buckets :
        \/ k \notin DOMAIN aggregator.last.before
        \/ aggregator.last.before[k] # aggregator._buckets[k]}

\* C23: a High alert is sent at once as a message of its own and changes no
\* bucket; any other alert is added to the bucket of its own venue and symbol
\* and to no other bucket
C23_HighBypassesOthersBucketed ==
    aggregator.last.op = "add_alert" =>
        IF aggregator.last.level = "high"
        THEN /\ aggregator._buckets = aggregator.last.before
             /\ aggregator.last.should_send
             /\ aggregator.last.summary =
                    [level |-> "high", market |-> aggregator.last.market,
                     symbol |-> aggregator.last.symbol,
                     total_value |-> aggregator.last.value,
                     max_slippage |-> aggregator.last.slippage]
        ELSE /\ DOMAIN aggregator.last.before \subseteq DOMAIN aggregator._buckets
             /\ Cardinality(ChangedBuckets) = 1
             /\ \A k \in ChangedBuckets :
                    LET b == aggregator._buckets[k]
                    IN /\ b.symbol = aggregator.last.symbol
                       /\ b.market = aggregator.last.market
                       /\ b.levels[Len(b.levels)] = aggregator.last.level
                       /\ b.count = IF /\ k \in DOMAIN aggregator.last.before
                                       /\ ~aggregator.last.should_send
                                    THEN aggregator.last.before[k].count + 1 ELSE 1

\* a High alert arrives while the bucket of its venue and symbol is open
C23_Witness ==
    /\ aggregator.last.op = "add_alert" /\ aggregator.last.level = "high"
    /\ _get_bucket_key(aggregator.last.symbol, aggregator.last.market)
           \in DOMAIN aggregator._buckets
    /\ Cardinality(DOMAIN aggregator._buckets) = 2

\* a bucket whose window has closed
WindowClosed ==
    \E k \in DOMAIN aggregator._buckets :
        now - aggregator._buckets[k].first_time >= window_seconds

\* C24: a bucket whose window has closed is emitted, also when no further alert
\* arrives for its venue and symbol
C24_SummaryOnWindowClose == WindowClosed ~> ~WindowClosed

C26_CrossedBookSkipsSlippage ==
    (processor.last.counted /\ processor.last.crossed) =>
        ~processor.last.recorded /\ ~processor.last.alerted

\* C19: when detect_stop_hunt runs on a history in which the three conditions
\* of a stop hunt hold, it reports the stop hunt
C19_StopHuntReported == whale.happened => whale.signal.is_detected

\* C20: the threshold get_dynamic_threshold returns is the fallback when fewer
\* than min_samples unexpired samples are retained, and otherwise the larger of
\* their 95th percentile and the floor
C20_ThresholdByRule ==
    smart_filter.last.called => smart_filter.last.threshold = smart_filter.last.rule

(***************************************************************************)
(* Claims about the token bucket                                           *)
(***************************************************************************)
\* C17: acquire is safe for concurrent callers (one caller at a time is inside
\* the lock, the bucket holds between 0 and capacity tokens) and FIFO: the
\* calls are granted in the order in which they were made
C17_GrantsInCallOrder ==
    /\ bucket.tokens >= 0 /\ bucket.tokens <= capacity
    /\ Cardinality({c \in BucketCallers : bucket.callers[c].pc = "sleep"}) <= 1
    /\ \A i \in 1..Len(bucket.grants) : bucket.grants[i].call = i

\* three calls are granted, and two callers at once have queued for the lock
C17_Witness ==
    /\ Len(bucket.grants) >= 3
    /\ bucket.max_waiters >= 2

\* the time a granted call took
GrantDelay(g) == g.done - bucket.calls[g.call].called

\* C18 as stated: every acquire(n) completes within ceil(n / rate) seconds,
\* whatever the number of other callers pending
C18_WithinOwnBound ==
    \A i \in 1..Len(bucket.grants) :
        GrantDelay(bucket.grants[i])
            <= CeilDiv(bucket.calls[bucket.grants[i].call].n, rate)

\* the number of seconds within which a call completes: ceil(N / rate), N the
\* tokens of the call and of the calls pending when it was made
QueueBound(call) == CeilDiv(call.ahead + call.n, rate)

\* C18, amended: no call is starved; a call completes within QueueBound seconds
\* and no pending call is older than that
C18_WithinQueueBound ==
    /\ \A i \in 1..Len(bucket.grants) :
          GrantDelay(bucket.grants[i]) <= QueueBound(bucket.calls[bucket.grants[i].call])
    /\ \A c \in BucketCallers :
          bucket.callers[c].pc # "idle"
          => now - bucket.calls[bucket.callers[c].call].called
                 <= QueueBound(bucket.calls[bucket.callers[c].call])

\* a call made behind pending calls was granted later than ceil(n / rate)
C18_Witness ==
    \E i \in 1..Len(bucket.grants) :
        /\ bucket.calls[bucket.grants[i].call].ahead > 0
        /\ GrantDelay(bucket.grants[i])
               > CeilDiv(bucket.calls[bucket.grants[i].call].n, rate)

\* the tokens granted by the grants i..j
RECURSIVE GrantedTokens(_, _)
GrantedTokens(i, j) ==
    IF i > j THEN 0
    ELSE bucket.calls[bucket.grants[i].call].n + GrantedTokens(i + 1, j)

\* C34: over any interval of length t, the tokens granted to all callers
\* together are at most capacity + rate * t: for any two grants, the tokens of
\* the grants from the first to the second are within the capacity plus what
\* the rate yields between the two
C34_GrantsWithinRate ==
    \A i \in 1..Len(bucket.grants) : \A j \in i..Len(bucket.grants) :
        GrantedTokens(i, j)
            <= capacity + rate * (bucket.grants[j].done - bucket.grants[i].done)

(***************************************************************************)
(* Claims about the alert gate and the push notifier                       *)
(***************************************************************************)
\* C1: for every alert key (market, symbol, kind, whole-dollar price), any two
\* alerts that pass the gate are at least the cool-down apart, however the
\* trade and depth events of the connections interleave with the pushes.
C1_CooldownPerKey ==
    /\ \A k \in DOMAIN gate_hist.alerts :
          gate_hist.alerts[k].gap = NoTime \/ gate_hist.alerts[k].gap >= PRICE_COOLDOWN
    /\ \A k \in DOMAIN mm_hist.alerts :
          mm_hist.alerts[k].gap = NoTime \/ mm_hist.alerts[k].gap >= cooldown_sec

\* C1 witness: some key has raised two alerts, exactly one cool-down apart
C1_Witness ==
    \E k \in DOMAIN gate_hist.alerts : gate_hist.alerts[k].gap = PRICE_COOLDOWN

TotalRateDrops ==
    gate_hist.rate_drops[LOW] + gate_hist.rate_drops[MEDIUM] + gate_hist.rate_drops[HIGH]

\* C2: every High alert has exactly one push attempted, through the urgent bot,
\* unless the rate limit dropped it; Low and Medium pushes go through the normal
\* bot; and the drops are counted: once messages have been dropped, one of the
\* monitor's counters reads their number.
C2_HighUrgentDropsCounted ==
    /\ \A p \in gate_hist.post_tokens :
          p[2] = (IF p[1] = HIGH THEN TELEGRAM_URGENT_BOT_TOKEN ELSE TELEGRAM_BOT_TOKEN)
    /\ bm.stats["alerts_high"] = gate_hist.posts[HIGH] + gate_hist.rate_drops[HIGH]
    /\ TotalRateDrops > 0 => \E k \in DOMAIN bm.stats : bm.stats[k] = TotalRateDrops

\* C3: no more than rate_limit messages are pushed in any window of 60 seconds.
C3_AtMostLPerWindow ==
    \A i \in DOMAIN gate_hist.pushes :
        Cardinality({j \in DOMAIN gate_hist.pushes :
                        /\ gate_hist.pushes[j].t <= gate_hist.pushes[i].t
                        /\ gate_hist.pushes[i].t - gate_hist.pushes[j].t < RateWindow})
            <= rate_limit

\* C4: a High alert is dropped by the rate limit only when the urgent bot itself
\* has used its budget of the current window.
C4_HighDropNeedsUrgentTraffic ==
    gate_hist.last_drop.level = HIGH => gate_hist.last_drop.same_bot >= rate_limit

\* C5: a connection task whose push is outstanding can still take the next
\* stream event.
C5_ShardKeepsReceiving ==
    \A c \in Conns : bm_task[c].pc = "post" => ENABLED Receive(c)

====
